---- MODULE Spec2Model ----
(***************************************************************************)
(* holdpty: the holder process (src/src/protocol.ts, Holder), its ring     *)
(* buffer (src/src/ring-buffer.ts) and the session registry                *)
(* (src/src/session.ts), as a state machine.                               *)
(*                                                                         *)
(* The holder runs on one event loop.  Every action below is one callback  *)
(* of that loop (a socket event, a PTY event, a timer) or one step of      *)
(* Holder.start, taken atomically, or a step of another process            *)
(* (an enumeration of the registry, the holder process exiting).           *)
(*                                                                         *)
(* Sockets follow node's net.Socket: write() on a socket whose writable    *)
(* side was ended puts nothing on the wire and destroys the socket;        *)
(* write() on a destroyed socket puts nothing on the wire; end() queues    *)
(* FIN after the frames written so far.  socks[c].out is what the holder   *)
(* has put on the wire of connection c.                                    *)
(*                                                                         *)
(* Conn is the set of connection slots: a slot holds one connection from   *)
(* its accept to its close event and is then free for the next one, so a   *)
(* session sees any number of connections, MaxConns of them at a time.     *)
(***************************************************************************)
EXTENDS Integers, Sequences, FiniteSets, TLC

\* ── Bounds ───────────────────────────────────────────────────────────────
MaxConns == 2          \* connections open at the same time
MaxData == 2           \* PTY output chunks
MaxPtyIn == 1          \* ptyProcess.write calls
MaxChunkLen == 2       \* frames decoded from one chunk
MaxBytes == 1          \* bytes in one PTY output chunk
Capacity == 1          \* ring capacity used by the holder (scaled down)
MaxCapacity == 3       \* capacities of a ring used on its own: 1..MaxCapacity
MaxWriteLen == 4       \* bytes in one RingBuffer.write
MaxRingBytes == 7      \* bytes written to one ring
MaxFrames == 3         \* frames and bad headers in one stream
MaxPayloadLen == 2     \* bytes in the payload of a frame of a stream
MaxEnvLen == 3         \* characters in the value of HOLDPTY_LINGER_MS
MaxReplay == 1         \* replay DATA_OUT frames sent to a peer
MaxLive == 1           \* live DATA_OUT frames sent to a peer
MaxOut == 6            \* frames one data event leaves on the wire of a connection

\* ── Program constants ────────────────────────────────────────────────────
NoClient == 0          \* writer: ClientConnection | null = null
NullCode == -1000      \* childExitCode: number | null = null
DefaultExit == -1      \* childExitCode ?? -1
ProtocolVersion == 1   \* hello.protocolVersion !== 1
DefaultLingerMs == 5000 \* ?? "5000" and || 5000
HEADER_SIZE == 5
MAX_PAYLOAD == 10 * 1024 * 1024
MSG_DATA_OUT == 1
MSG_EXIT == 4
MSG_ERROR == 5
MSG_HELLO == 6
MSG_HELLO_ACK == 7
MSG_REPLAY_END == 8

Conn == 1..MaxConns
ExitCodes == {0, 42}
NullMode == "null"

\* ── Ring buffer ──────────────────────────────────────────────────────────
Min(a, b) == IF a < b THEN a ELSE b

RingNew(cap) ==
  [capacity |-> cap, buf |-> [i \in 1..cap |-> 0], head |-> 0, written |-> 0]

RingWrite(r, data) ==
  LET len == Len(data)
      cap == r.capacity
      spaceToEnd == cap - r.head
  IN IF len = 0 THEN r
     ELSE IF len >= cap
       THEN [r EXCEPT !.buf = [i \in 1..cap |-> data[len - cap + i]],
                      !.head = 0,
                      !.written = @ + len]
       ELSE [r EXCEPT
               !.buf = [i \in 1..cap |->
                          LET off == i - 1 IN
                          IF off >= r.head /\ off < r.head + len
                            THEN data[off - r.head + 1]
                          ELSE IF len > spaceToEnd /\ off < len - spaceToEnd
                            THEN data[spaceToEnd + off + 1]
                          ELSE r.buf[i]],
               !.head = (r.head + len) % cap,
               !.written = @ + len]

RingSize(r) == Min(r.written, r.capacity)

RingReadLinear(r) == SubSeq(r.buf, 1, RingSize(r))

RingRead(r) ==
  LET size == RingSize(r) IN
  IF size = 0 THEN <<>>
  ELSE IF r.written <= r.capacity THEN SubSeq(r.buf, 1, size)
  ELSE SubSeq(r.buf, r.head + 1, r.capacity) \o SubSeq(r.buf, 1, r.head)

RingClearKeepsHead(r) == [r EXCEPT !.written = 0]

RingClear(r) == [r EXCEPT !.head = 0, !.written = 0]

\* ── Frames the holder sends ──────────────────────────────────────────────
\* origin names the code that wrote the frame: "handshake" (handleFrame),
\* "broadcast" (broadcast), "shutdown" (shutdown), "error" (sendError),
\* "end" (socket.end()).
OutFrame(type, data, code, text, origin) ==
  [type |-> type, data |-> data, code |-> code, text |-> text, origin |-> origin]

encodeHelloAck(m, size) == OutFrame("HELLO_ACK", <<>>, size, m, "handshake")
encodeDataOut(data, origin) == OutFrame("DATA_OUT", data, 0, "", origin)
encodeReplayEnd == OutFrame("REPLAY_END", <<>>, 0, "", "handshake")
encodeExit(code, origin) == OutFrame("EXIT", <<>>, code, "", origin)
encodeError(msg) == OutFrame("ERROR", <<>>, 0, msg, "error")
FIN == OutFrame("FIN", <<>>, 0, "", "end")

\* ── Frames a client sends ────────────────────────────────────────────────
InFrame(type, json, m, ver, size) ==
  [type |-> type, json |-> json, null |-> FALSE, mode |-> m, ver |-> ver,
   size |-> size]

Hello(m, ver) == InFrame("HELLO", TRUE, m, ver, 0)
BadHello == InFrame("HELLO", FALSE, "", 0, 0)
\* A HELLO whose payload is the JSON text null: JSON.parse returns null.
HelloNull == [InFrame("HELLO", TRUE, "", 0, 0) EXCEPT !.null = TRUE]
DataIn == InFrame("DATA_IN", TRUE, "", 0, 0)
Resize(size) == InFrame("RESIZE", TRUE, "", 0, size)
Other == InFrame("OTHER", TRUE, "", 0, 0)

\* The chunks a data event can carry: up to MaxChunkLen frames of `frames`.
ChunksOf(frames) == UNION {[1..n -> frames] : n \in 1..MaxChunkLen}

\* Handshakes in the three modes, input and a frame that is no HELLO.
HandshakeFrames ==
  {Hello(m, ProtocolVersion) : m \in {"attach", "view", "logs"}}
    \cup {DataIn, Other}

\* What the clients of a session send while the registry is watched.
RegistryFrames == {Hello("attach", ProtocolVersion), Hello("view", ProtocolVersion)}

\* Handshakes of a client that speaks another protocol version, beside an
\* attach of this version.
VersionFrames ==
  {Hello("attach", ProtocolVersion), Hello("attach", ProtocolVersion + 1),
   Hello("view", ProtocolVersion + 1)}

\* Handshakes in the three modes, input and a resize to 7 columns and rows.
InputFrames ==
  {Hello(m, ProtocolVersion) : m \in {"attach", "view", "logs"}}
    \cup {DataIn, Resize(7)}

\* ── Sockets (net.Socket as the holder uses it) ───────────────────────────
\* st: "none" (no connection in this slot), "open", "ended" (end() called),
\* "destroyed" (destroy() called, close event not delivered yet).
SockNew == [st |-> "none", out |-> <<>>]

SockWrite(s, f) ==
  IF s.st = "open" THEN [s EXCEPT !.out = Append(@, f)]
  ELSE IF s.st = "ended" THEN [s EXCEPT !.st = "destroyed"]
  ELSE s

SockEnd(s) ==
  IF s.st = "open" THEN [st |-> "ended", out |-> Append(s.out, FIN)] ELSE s

SockDestroy(s) ==
  IF s.st \in {"open", "ended"} THEN [s EXCEPT !.st = "destroyed"] ELSE s

VARIABLES
  pc,              \* position of Holder.start
  ptySpawned,      \* pty.spawn succeeded, setupPty wired the handlers
  server,          \* "none", "listening", "closed"
  metaExists,      \* {name}.json exists
  ring,            \* the RingBuffer
  clients,         \* Holder.clients
  mode,            \* ClientConnection.mode of every connection
  writer,          \* Holder.writer
  socks,           \* the socket of every connection
  childExitCode, childExited, shuttingDown,
  drainTimer,      \* the drain timeout of onExit is pending
  lingerTimer,     \* the linger timeout of shutdown is pending
  closePending,    \* server.close() was called, its callback is pending
  shutdownResolved,\* resolveShutdown() was called
  waitResult,      \* what waitForExit returned
  ptyIn,           \* ptyProcess.write calls, by connection
  ptySize,         \* ptyProcess.cols/rows (0: initial size)
  nData,           \* PTY chunks produced
  ptyOut,          \* the chunks the PTY has produced, in order
  holderAlive,     \* the holder process exists
  lsPc, listed,    \* an enumeration by another process and its result
  shutdownSteps,   \* how often each step of shutdown has run
  rb,              \* a RingBuffer written to and cleared by a caller
  rbFresh,         \* a RingBuffer constructed at the last clear() of rb
  rbLog,           \* the bytes written to rb since its construction or clear()
  rbCleared,       \* clear() was called on rb
  rbN,             \* bytes written to rb since its construction
  stream,          \* the frames and bad headers a peer sends, in order
  fed,             \* how many bytes of the stream the decoder was given
  decBuf,          \* FrameDecoder.buf
  decOut,          \* the frames decode has returned, in order
  decThrew,        \* a decode call has thrown
  stPc,            \* a `holdpty stop` run by another process
  other,           \* a second metadata file of the session directory
  otherListed,     \* the enumeration returns the second file's session
  lsOther,         \* the enumeration has processed the second file
  lingerEnv,       \* process.env["HOLDPTY_LINGER_MS"]
  lingerMs,        \* const lingerMs of shutdown (0: not computed yet)
  lingerDelay,     \* the delay of the linger timeout in ms (0: not set yet)
  cMode,           \* ConnectOptions.mode of a peer created with connect()
  cCb,             \* ConnectOptions.onReplayData is set
  cFrames,         \* the frames the holder sends to that peer, in order
  cFed,            \* how many of their bytes the peer's socket has delivered
  cBuf,            \* the buffer of connect's FrameDecoder
  ack,             \* connect: ack is set
  resolved,        \* connect: "pending", or how its promise was settled
  cDone,           \* what the done promise resolved with
  replayDone,      \* connect: replayDone
  cLog,            \* what the peer did with each DATA_OUT, in order
  aOn,             \* attach() has added its data handler
  aBuf,            \* the buffer of attach's FrameDecoder
  h2Pc,            \* a second Holder.start under the same name: its position
  meta2,           \* the metadata file holds the second holder's metadata
  sockFile,        \* whose socket the socket path names: "none", "A" or "B"
  stdinData,       \* attach: the bytes typed at the terminal
  stdinFed,        \* attach: how many of them stdin has delivered
  stdinCuts,       \* attach: where the delivered chunks ended
  detachIdx,       \* attach: detachIdx
  detached,        \* attach: detached
  sent,            \* attach: the DATA_IN payloads written to the socket
  tailChunks,      \* TailBuffer: chunks
  totalBytes,      \* TailBuffer: totalBytes
  tailLines,       \* the argument of the last flush, NullCode before it
  tailOut          \* what the last flush returned

holderVars == <<pc, ptySpawned, server, metaExists, ring, clients, mode, writer,
          socks, childExitCode, childExited, shuttingDown,
          drainTimer, lingerTimer, closePending, shutdownResolved,
          waitResult, ptyIn, ptySize, nData, holderAlive,
          lsPc, listed, shutdownSteps, ptyOut>>

ringVars == <<rb, rbFresh, rbLog, rbCleared, rbN>>

decoderVars == <<stream, fed, decBuf, decOut, decThrew>>

rivalVars == <<h2Pc, meta2, sockFile>>

readerVars == <<stPc, other, otherListed, lsOther, rivalVars>>

lingerVars == <<lingerEnv, lingerMs, lingerDelay>>

connVars == <<cMode, cCb, cFrames, cFed, cBuf, ack, resolved, cDone, replayDone,
              cLog, aOn, aBuf>>

stdinVars == <<stdinData, stdinFed, stdinCuts, detachIdx, detached, sent>>

tailVars == <<tailChunks, totalBytes, tailLines, tailOut>>

clientVars == <<connVars, stdinVars, tailVars>>

libVars == <<ringVars, decoderVars, lingerVars, clientVars>>

vars == <<holderVars, readerVars, ringVars, decoderVars, lingerVars, clientVars>>

\* The holder after its construction, before start has spawned the child.
HolderInit ==
  /\ pc = "init"
  /\ ptySpawned = FALSE
  /\ server = "none"
  /\ metaExists = FALSE
  /\ ring = RingNew(Capacity)
  /\ clients = {}
  /\ mode = [c \in Conn |-> NullMode]
  /\ writer = NoClient
  /\ socks = [c \in Conn |-> SockNew]
  /\ childExitCode = NullCode
  /\ childExited = FALSE
  /\ shuttingDown = FALSE
  /\ drainTimer = FALSE
  /\ lingerTimer = FALSE
  /\ closePending = FALSE
  /\ shutdownResolved = FALSE
  /\ waitResult = NullCode
  /\ ptyIn = <<>>
  /\ ptySize = 0
  /\ nData = 0
  /\ ptyOut = <<>>
  /\ holderAlive = TRUE
  /\ lsPc = "idle"
  /\ listed = FALSE
  /\ shutdownSteps = [exit |-> 0, linger |-> 0, close |-> 0, remove |-> 0]

\* No ring other than the holder's is in use.
RingIdle ==
  /\ rb = RingNew(Capacity)
  /\ rbFresh = RingNew(Capacity)
  /\ rbLog = <<>>
  /\ rbCleared = FALSE
  /\ rbN = 0

\* No decoder is fed.
DecoderIdle ==
  /\ stream = <<>>
  /\ fed = 0
  /\ decBuf = <<>>
  /\ decOut = <<>>
  /\ decThrew = FALSE

\* No second holder was started under the session's name, and no socket file
\* is left over from an earlier session.
RivalIdle ==
  /\ h2Pc = "idle"
  /\ meta2 = FALSE
  /\ sockFile = "none"

\* No other process stops the session, and its metadata file is the only one.
ReaderIdle ==
  /\ stPc = "idle"
  /\ other = "none"
  /\ otherListed = FALSE
  /\ lsOther = FALSE
  /\ RivalIdle

\* No shutdown has read the linger setting.
LingerIdle ==
  /\ lingerEnv = [set |-> FALSE, chars |-> <<>>]
  /\ lingerMs = 0
  /\ lingerDelay = 0

\* No terminal is attached.
StdinIdle ==
  /\ stdinData = <<>>
  /\ stdinFed = 0
  /\ stdinCuts = {}
  /\ detachIdx = 0
  /\ detached = FALSE
  /\ sent = <<>>

\* new TailBuffer(), in no use.
TailIdle ==
  /\ tailChunks = <<>>
  /\ totalBytes = 0
  /\ tailLines = NullCode
  /\ tailOut = <<>>

\* No peer was created with connect().
ConnIdle ==
  /\ cMode = NullMode
  /\ cCb = FALSE
  /\ cFrames = <<>>
  /\ cFed = 0
  /\ cBuf = <<>>
  /\ ack = FALSE
  /\ resolved = "pending"
  /\ cDone = NullCode
  /\ replayDone = FALSE
  /\ cLog = <<>>
  /\ aOn = FALSE
  /\ aBuf = <<>>

ClientIdle == ConnIdle /\ StdinIdle /\ TailIdle

LibIdle == RingIdle /\ DecoderIdle /\ LingerIdle /\ ClientIdle

Init == HolderInit /\ ReaderIdle /\ LibIdle

\* ── Holder.start ─────────────────────────────────────────────────────────
\* The steps of start run in one turn of the event loop (listen's callback is
\* delivered through process.nextTick): no socket, PTY or timer callback of
\* this holder runs between them.  Other processes do run between them.
ListenResultNone(ok) == "none"

ListenResult(ok) == IF ok THEN "listening" ELSE "none"

StartSpawn ==
  /\ pc = "init"
  /\ \E ok \in BOOLEAN :
       /\ pc' = IF ok THEN "spawned" ELSE "failed"
       /\ ptySpawned' = ok
  /\ UNCHANGED <<server, metaExists, ring, clients, mode, writer, socks,
                 childExitCode, childExited, shuttingDown,
                 drainTimer, lingerTimer, closePending, shutdownResolved,
                 waitResult, ptyIn, ptySize, nData, holderAlive,
                 lsPc, listed>>
  /\ UNCHANGED <<shutdownSteps, ptyOut>>
  /\ UNCHANGED <<libVars, readerVars>>

\* await holder.listen(sockPath): start goes on when the server listens and
\* throws when listen has emitted an error.
AwaitListenIgnores(ok) == "listening"

AwaitListen(ok) == IF ok THEN "listening" ELSE "failed"

StartListen ==
  /\ pc = "spawned"
  /\ \E ok \in BOOLEAN :
       /\ pc' = AwaitListen(ok)
       /\ server' = ListenResult(ok)
       /\ sockFile' = IF ok THEN "A" ELSE sockFile
  /\ UNCHANGED <<ptySpawned, metaExists, ring, clients, mode, writer, socks,
                 childExitCode, childExited, shuttingDown,
                 drainTimer, lingerTimer, closePending, shutdownResolved,
                 waitResult, ptyIn, ptySize, nData, holderAlive,
                 lsPc, listed>>
  /\ UNCHANGED <<shutdownSteps, ptyOut>>
  /\ UNCHANGED <<libVars, stPc, other, otherListed, lsOther, h2Pc, meta2>>

StartWriteMetadata ==
  /\ pc = "listening"
  /\ pc' = "metadata"
  /\ metaExists' = TRUE
  /\ UNCHANGED <<ptySpawned, server, ring, clients, mode, writer, socks,
                 childExitCode, childExited, shuttingDown,
                 drainTimer, lingerTimer, closePending, shutdownResolved,
                 waitResult, ptyIn, ptySize, nData, holderAlive,
                 lsPc, listed>>
  /\ UNCHANGED <<shutdownSteps, ptyOut>>
  /\ UNCHANGED <<libVars, readerVars>>

StartReturn ==
  /\ pc = "metadata"
  /\ pc' = "started"
  /\ UNCHANGED <<ptySpawned, server, metaExists, ring, clients, mode, writer,
                 socks, childExitCode, childExited, shuttingDown,
                 drainTimer, lingerTimer, closePending, shutdownResolved,
                 waitResult, ptyIn, ptySize, nData, holderAlive,
                 lsPc, listed>>
  /\ UNCHANGED <<shutdownSteps, ptyOut>>
  /\ UNCHANGED <<libVars, readerVars>>

\* The holder's event loop delivers callbacks: start has returned or thrown,
\* and the process exists.
LoopRuns == pc \in {"started", "failed"} /\ holderAlive

\* ── handleConnection ─────────────────────────────────────────────────────
Connect(c) ==
  /\ LoopRuns
  /\ server = "listening"
  /\ socks[c].st = "none"
  /\ \A d \in Conn : d < c => socks[d].st # "none"
  /\ clients' = clients \cup {c}
  /\ socks' = [socks EXCEPT ![c] = [st |-> "open", out |-> <<>>]]
  /\ UNCHANGED <<pc, ptySpawned, server, metaExists, ring, mode, writer,
                 childExitCode, childExited, shuttingDown, drainTimer,
                 lingerTimer, closePending, shutdownResolved, waitResult,
                 ptyIn, ptySize, nData, holderAlive, lsPc, listed>>
  /\ UNCHANGED <<shutdownSteps, ptyOut>>
  /\ UNCHANGED <<libVars, readerVars>>

\* ── handleFrame ──────────────────────────────────────────────────────────
\* H is the part of the holder's state a data event can change.
HolderState ==
  [mode |-> mode, writer |-> writer, socks |-> socks, ptyIn |-> ptyIn,
   ptySize |-> ptySize, threw |-> FALSE]

sendError(H, c, msg) == [H EXCEPT !.socks[c] = SockWrite(@, encodeError(msg))]

RejectLeavesOpen(H, c, msg) == sendError(H, c, msg)

Reject(H, c, msg) ==
  LET H1 == sendError(H, c, msg) IN [H1 EXCEPT !.socks[c] = SockDestroy(@)]

AttachBusyNever(f, w) == FALSE

AttachBusy(f, w) == f.mode = "attach" /\ w # NoClient

ExitCodeOrDefault(code) == IF code = NullCode THEN DefaultExit ELSE code

LogsStaysOpen(s, m) == s

LogsEnd(s, m) == IF m = "logs" THEN SockEnd(s) ELSE s

ExitOnHelloNever(s, m, exited, code) == s

ExitOnHelloNoEnd(s, m, exited, code) ==
  IF exited /\ m # "logs"
    THEN SockWrite(s, [type |-> "EXIT", data |-> <<>>,
                       code |-> IF code = NullCode THEN DefaultExit ELSE code,
                       text |-> "", origin |-> "handshake"])
    ELSE s

ExitOnHello(s, m, exited, code) ==
  IF exited /\ m # "logs"
    THEN SockEnd(SockWrite(s, encodeExit(ExitCodeOrDefault(code), "handshake")))
    ELSE s

\* The replay of the handshake: the ring's contents, when it has any.
ReplayNever(s, bufData) == s

Replay(s, bufData) ==
  IF Len(bufData) > 0 THEN SockWrite(s, encodeDataOut(bufData, "handshake")) ELSE s

Accept(H, c, f) ==
  LET s1 == SockWrite(H.socks[c], encodeHelloAck(f.mode, H.ptySize))
      s2 == Replay(s1, RingRead(ring))
      s3 == SockWrite(s2, encodeReplayEnd)
      s4 == LogsEnd(s3, f.mode)
      s5 == ExitOnHello(s4, f.mode, childExited, childExitCode)
  IN [H EXCEPT !.mode[c] = f.mode,
               !.writer = IF f.mode = "attach" THEN c ELSE @,
               !.socks[c] = s5]

\* client.mode === "attach": the test that guards ptyProcess.write and resize.
MayInputView(m) == m \in {"attach", "view"}

MayInput(m) == m = "attach"

\* default: a frame of any other type is ignored after the handshake.
IgnoreRejects(H, c) == Reject(H, c, "Unexpected frame")

Ignore(H, c) == H

\* An exception that no try block of the data handler catches.
Throw(H) == [H EXCEPT !.threw = TRUE]

handleFrame(H, c, f) ==
  IF H.mode[c] = NullMode
    THEN IF f.type # "HELLO" THEN Reject(H, c, "Expected HELLO")
         ELSE IF ~f.json THEN Reject(H, c, "Invalid HELLO payload")
         ELSE IF f.null THEN Throw(H)
         ELSE IF f.ver # ProtocolVersion
           THEN Reject(H, c, "Unsupported protocol version")
         ELSE IF AttachBusy(f, H.writer)
           THEN Reject(H, c, "has an active attachment")
         ELSE Accept(H, c, f)
  ELSE IF f.type = "DATA_IN"
    THEN IF MayInput(H.mode[c]) THEN [H EXCEPT !.ptyIn = Append(@, c)] ELSE H
  ELSE IF f.type = "RESIZE"
    THEN IF MayInput(H.mode[c]) /\ ~childExited
           THEN [H EXCEPT !.ptySize = f.size] ELSE H
  ELSE Ignore(H, c)

RECURSIVE handleFrames(_, _, _)
handleFrames(H, c, frames) ==
  IF frames = <<>> \/ H.threw THEN H
  ELSE handleFrames(handleFrame(H, c, Head(frames)), c, Tail(frames))

\* socket.on("data"): the chunk decoded to frames, each handed to handleFrame.
\* An exception that leaves the handler is uncaught and ends the process.
SocketData(c, frames) ==
  /\ LoopRuns
  /\ socks[c].st \in {"open", "ended"}
  /\ LET H == handleFrames(HolderState, c, frames) IN
       /\ Len(H.ptyIn) <= MaxPtyIn
       /\ Len(H.socks[c].out) <= MaxOut
       /\ mode' = H.mode
       /\ writer' = H.writer
       /\ socks' = H.socks
       /\ ptyIn' = H.ptyIn
       /\ ptySize' = H.ptySize
       /\ holderAlive' = (holderAlive /\ ~H.threw)
  /\ UNCHANGED <<pc, ptySpawned, server, metaExists, ring, clients, childExitCode, childExited, shuttingDown, drainTimer,
                 lingerTimer, closePending, shutdownResolved, waitResult,
                 nData, lsPc, listed>>
  /\ UNCHANGED <<shutdownSteps, ptyOut>>
  /\ UNCHANGED <<libVars, readerVars>>

\* socket.on("data") when the decoder throws: no frame of the chunk is handled.
SocketMalformed(c) ==
  /\ LoopRuns
  /\ socks[c].st \in {"open", "ended"}
  /\ socks' = Reject(HolderState, c, "Malformed frame").socks
  /\ UNCHANGED <<pc, ptySpawned, server, metaExists, ring, clients, mode,
                 writer, childExitCode, childExited, shuttingDown,
                 drainTimer, lingerTimer, closePending, shutdownResolved,
                 waitResult, ptyIn, ptySize, nData, holderAlive, lsPc, listed>>
  /\ UNCHANGED <<shutdownSteps, ptyOut>>
  /\ UNCHANGED <<libVars, readerVars>>

\* ── disconnectClient ─────────────────────────────────────────────────────
ReleaseWriterNever(w, c) == w

ReleaseWriter(w, c) == IF w = c THEN NoClient ELSE w

\* socket.on("error"): the socket is destroyed, its close event follows.
SocketError(c) ==
  /\ LoopRuns
  /\ socks[c].st \in {"open", "ended", "destroyed"}
  /\ writer' = ReleaseWriter(writer, c)
  /\ clients' = clients \ {c}
  /\ socks' = [socks EXCEPT ![c] = SockDestroy(@)]
  /\ UNCHANGED <<pc, ptySpawned, server, metaExists, ring, mode, childExitCode, childExited, shuttingDown, drainTimer,
                 lingerTimer, closePending, shutdownResolved, waitResult,
                 ptyIn, ptySize, nData, holderAlive, lsPc, listed>>
  /\ UNCHANGED <<shutdownSteps, ptyOut>>
  /\ UNCHANGED <<libVars, readerVars>>

\* socket.on("close"): the peer closed, or the socket was destroyed.  The
\* connection is gone for good: its slot is free for a later connection.
SocketClose(c) ==
  /\ LoopRuns
  /\ socks[c].st \in {"open", "ended", "destroyed"}
  /\ writer' = ReleaseWriter(writer, c)
  /\ clients' = clients \ {c}
  /\ socks' = [socks EXCEPT ![c] = SockNew]
  /\ mode' = [mode EXCEPT ![c] = NullMode]
  /\ UNCHANGED <<pc, ptySpawned, server, metaExists, ring, childExitCode, childExited, shuttingDown, drainTimer,
                 lingerTimer, closePending, shutdownResolved, waitResult,
                 ptyIn, ptySize, nData, holderAlive, lsPc, listed>>
  /\ UNCHANGED <<shutdownSteps, ptyOut>>
  /\ UNCHANGED <<libVars, readerVars>>

\* ── setupPty ─────────────────────────────────────────────────────────────
BroadcastTargetAny(m) == TRUE

BroadcastTargetAttach(m) == m = "attach"

BroadcastTarget(m) == m \in {"attach", "view"}

broadcast(ss, frame) ==
  [c \in Conn |-> IF c \in clients /\ BroadcastTarget(mode[c])
                    THEN SockWrite(ss[c], frame) ELSE ss[c]]

\* The bytes of the n-th PTY chunk (distinct bytes, so that order shows).
PtyChunk(n, len) == [k \in 1..len |-> 10 * n + k]

\* ptyProcess.onData
PtyData(len) ==
  /\ LoopRuns
  /\ ptySpawned
  /\ nData < MaxData
  /\ nData' = nData + 1
  /\ LET buf == PtyChunk(nData + 1, len) IN
       /\ ptyOut' = Append(ptyOut, buf)
       /\ ring' = RingWrite(ring, buf)
       /\ socks' = broadcast(socks, encodeDataOut(buf, "broadcast"))
  /\ UNCHANGED <<pc, ptySpawned, server, metaExists, clients, mode, writer,
                 childExitCode, childExited, shuttingDown,
                 drainTimer, lingerTimer, closePending, shutdownResolved,
                 waitResult, ptyIn, ptySize, holderAlive, lsPc,
                 listed>>
  /\ UNCHANGED shutdownSteps
  /\ UNCHANGED <<libVars, readerVars>>

\* ptyProcess.onExit
PtyExit(exitCode) ==
  /\ LoopRuns
  /\ ptySpawned
  /\ ~childExited
  /\ childExitCode' = exitCode
  /\ childExited' = TRUE
  /\ drainTimer' = TRUE
  /\ UNCHANGED <<pc, ptySpawned, server, metaExists, ring, clients, mode,
                 writer, socks, shuttingDown, lingerTimer,
                 closePending, shutdownResolved, waitResult, ptyIn, ptySize,
                 nData, holderAlive, lsPc, listed>>
  /\ UNCHANGED <<shutdownSteps, ptyOut>>
  /\ UNCHANGED <<libVars, readerVars>>

\* ── shutdown ─────────────────────────────────────────────────────────────
ShutdownNotify(s, code) ==
  SockEnd(SockWrite(s, encodeExit(ExitCodeOrDefault(code), "shutdown")))

\* One more run of a step of shutdown: "exit" (the EXIT loop), "linger" (the
\* linger callback), "close" (server.close), "remove" (removeSession).
StepRuns(steps, name) == [steps EXCEPT ![name] = @ + 1]

\* A timeout that has fired is not pending any more.
TimerRepeats(t) == t

TimerFired(t) == FALSE

\* The drain timeout fires: shutdown().
DrainTimer ==
  /\ LoopRuns
  /\ drainTimer
  /\ drainTimer' = TimerFired(drainTimer)
  /\ IF shuttingDown
       THEN UNCHANGED <<shuttingDown, socks, lingerTimer, shutdownSteps>>
       ELSE /\ shuttingDown' = TRUE
            /\ shutdownSteps' = StepRuns(shutdownSteps, "exit")
            /\ socks' = [c \in Conn |->
                           IF c \in clients /\ mode[c] \in {"attach", "view"}
                             THEN ShutdownNotify(socks[c], childExitCode)
                             ELSE socks[c]]
            /\ lingerTimer' = TRUE
  /\ UNCHANGED <<pc, ptySpawned, server, metaExists, ring, clients, mode,
                 writer, childExitCode, childExited, closePending,
                 shutdownResolved, waitResult, ptyIn, ptySize, nData, holderAlive, lsPc, listed>>
  /\ UNCHANGED ptyOut
  /\ UNCHANGED <<libVars, readerVars>>

ServerClose(sv) == IF sv = "listening" THEN "closed" ELSE sv

\* this.clients.clear()
clientsClearKeeps(cs) == cs

clientsClear(cs) == {}

\* The linger timeout fires: destroy the clients, clear, server.close(cb).
LingerTimer ==
  /\ LoopRuns
  /\ lingerTimer
  /\ lingerTimer' = TimerFired(lingerTimer)
  /\ shutdownSteps' = StepRuns(StepRuns(shutdownSteps, "linger"), "close")
  /\ socks' = [c \in Conn |-> IF c \in clients THEN SockDestroy(socks[c])
                                               ELSE socks[c]]
  /\ clients' = clientsClear(clients)
  /\ writer' = NoClient
  /\ server' = ServerClose(server)
  /\ closePending' = TRUE
  /\ UNCHANGED <<pc, ptySpawned, metaExists, ring, mode, childExitCode, childExited, shuttingDown, drainTimer,
                 shutdownResolved, waitResult, ptyIn, ptySize, nData, holderAlive, lsPc, listed>>
  /\ UNCHANGED ptyOut
  /\ UNCHANGED <<libVars, readerVars>>

\* removeSession: what is left of the metadata file.
removeSessionKeeps(meta) == meta

removeSession(meta) == FALSE

\* removeSession: what the socket path names once it is unlinked.
unlinkSocket(file) == "none"

\* The callback of server.close: the server has no connection left.  A
\* destroyed socket does not count as one, whether or not its close event was
\* delivered.
ServerCloseCallback ==
  /\ LoopRuns
  /\ closePending
  /\ \A c \in Conn : socks[c].st \in {"none", "destroyed"}
  /\ shutdownSteps' = StepRuns(shutdownSteps, "remove")
  /\ closePending' = FALSE
  /\ metaExists' = removeSession(metaExists)
  /\ meta2' = removeSession(meta2)
  /\ sockFile' = unlinkSocket(sockFile)
  /\ shuttingDown' = FALSE
  /\ shutdownResolved' = TRUE
  /\ UNCHANGED <<pc, ptySpawned, server, ring, clients, mode, writer, socks,
                 childExitCode, childExited, drainTimer,
                 lingerTimer, waitResult, ptyIn, ptySize, nData,
                 holderAlive, lsPc, listed>>
  /\ UNCHANGED ptyOut
  /\ UNCHANGED <<libVars, stPc, other, otherListed, lsOther, h2Pc>>

\* ── waitForExit ──────────────────────────────────────────────────────────
WaitForExitDefault(code) == DefaultExit

WaitForExitResult(code) == ExitCodeOrDefault(code)

\* The caller of start awaits waitForExit; it resumes once the latch is set.
WaitForExit ==
  /\ pc = "started"
  /\ holderAlive
  /\ shutdownResolved
  /\ waitResult = NullCode
  /\ waitResult' = WaitForExitResult(childExitCode)
  /\ UNCHANGED <<pc, ptySpawned, server, metaExists, ring, clients, mode,
                 writer, socks, childExitCode, childExited,
                 shuttingDown, drainTimer, lingerTimer, closePending,
                 shutdownResolved, ptyIn, ptySize, nData,
                 holderAlive, lsPc, listed>>
  /\ UNCHANGED <<shutdownSteps, ptyOut>>
  /\ UNCHANGED <<libVars, readerVars>>

\* cmdLaunch / cmdHolder: process.exit(code) once waitForExit has returned.
ProcessExit ==
  /\ holderAlive
  /\ waitResult # NullCode
  /\ holderAlive' = FALSE
  /\ UNCHANGED <<pc, ptySpawned, server, metaExists, ring, clients, mode,
                 writer, socks, childExitCode, childExited,
                 shuttingDown, drainTimer, lingerTimer, closePending,
                 shutdownResolved, waitResult, ptyIn, ptySize, nData, lsPc, listed>>
  /\ UNCHANGED <<shutdownSteps, ptyOut>>
  /\ UNCHANGED <<libVars, readerVars>>

\* ── listSessions, run by another process ─────────────────────────────────
\* isSocketReachable: a connect to the socket path succeeds within the timeout,
\* which takes a socket file and the holder that listens on it.
EndpointReachable ==
  \/ sockFile = "A" /\ holderAlive /\ server = "listening"
  \/ sockFile = "B"

\* isProcessAlive(meta.pid) of the metadata the file holds.
MetaPidAlive == (metaExists /\ holderAlive) \/ meta2

\* readMetadata and isProcessAlive(meta.pid); a dead PID goes on to the probe.
ListStart ==
  /\ lsPc = "idle"
  /\ IF ~(metaExists \/ meta2) THEN lsPc' = "done" /\ listed' = FALSE
     ELSE IF MetaPidAlive THEN lsPc' = "done" /\ listed' = TRUE
     ELSE lsPc' = "probe" /\ listed' = FALSE
  /\ UNCHANGED <<pc, ptySpawned, server, metaExists, ring, clients, mode,
                 writer, socks, childExitCode, childExited,
                 shuttingDown, drainTimer, lingerTimer, closePending,
                 shutdownResolved, waitResult, ptyIn, ptySize, nData, holderAlive>>
  /\ UNCHANGED <<shutdownSteps, ptyOut>>
  /\ UNCHANGED <<libVars, readerVars>>

\* isSocketReachable has settled: a reachable session goes into the result, an
\* unreachable one goes on to removeSession.
ListProbe ==
  /\ lsPc = "probe"
  /\ IF EndpointReachable
       THEN lsPc' = "done" /\ listed' = TRUE
       ELSE lsPc' = "remove" /\ listed' = FALSE
  /\ UNCHANGED <<pc, ptySpawned, server, metaExists, ring, clients, mode,
                 writer, socks, childExitCode, childExited, shuttingDown,
                 drainTimer, lingerTimer, closePending, shutdownResolved,
                 waitResult, ptyIn, ptySize, nData, holderAlive>>
  /\ UNCHANGED <<shutdownSteps, ptyOut>>
  /\ UNCHANGED <<libVars, readerVars>>

\* if (clean) { removeSession(dir, name); } continue;
ListRemove ==
  /\ lsPc = "remove"
  /\ lsPc' = "done"
  /\ metaExists' = removeSession(metaExists)
  /\ meta2' = removeSession(meta2)
  /\ sockFile' = unlinkSocket(sockFile)
  /\ UNCHANGED <<pc, ptySpawned, server, ring, clients, mode, writer, socks,
                 childExitCode, childExited, shuttingDown,
                 drainTimer, lingerTimer, closePending, shutdownResolved,
                 waitResult, ptyIn, ptySize, nData, holderAlive, listed>>
  /\ UNCHANGED <<shutdownSteps, ptyOut>>
  /\ UNCHANGED <<libVars, stPc, other, otherListed, lsOther, h2Pc>>

\* readMetadata of the second file: null when JSON.parse throws.
readMetadataAny(file) == TRUE

readMetadata(file) == file # "garbled"

\* The loop body for the second file of the directory, which the loop reaches
\* before or after the holder's: "garbled" cannot be parsed, "stale" names a
\* dead PID and an endpoint nobody listens on, "live" names a running holder.
ListOther ==
  /\ lsPc \in {"idle", "done"}
  /\ ~lsOther
  /\ other # "none"
  /\ lsOther' = TRUE
  /\ IF ~readMetadata(other)
       THEN otherListed' = FALSE /\ UNCHANGED other
       ELSE IF other = "stale"
         THEN otherListed' = FALSE /\ other' = "none"
         ELSE otherListed' = TRUE /\ UNCHANGED other
  /\ UNCHANGED <<holderVars, stPc, libVars, rivalVars>>

\* The enumeration has returned; another one may start.
ListReturn ==
  /\ lsPc = "done"
  /\ lsOther \/ other = "none"
  /\ lsPc' = "idle"
  /\ lsOther' = FALSE
  /\ UNCHANGED <<pc, ptySpawned, server, metaExists, ring, clients, mode,
                 writer, socks, childExitCode, childExited,
                 shuttingDown, drainTimer, lingerTimer, closePending,
                 shutdownResolved, waitResult, ptyIn, ptySize, nData, holderAlive, listed>>
  /\ UNCHANGED <<shutdownSteps, ptyOut>>
  /\ UNCHANGED <<libVars, stPc, other, otherListed, rivalVars>>

\* ── cmdStop, run by another process ──────────────────────────────────────
\* const meta = readMetadata(name); if (!meta) die(...)
\* (the stop of a second holder's session is left out)
StopStart ==
  /\ stPc = "idle"
  /\ ~meta2
  /\ stPc' = IF metaExists THEN "check" ELSE "done"
  /\ UNCHANGED <<holderVars, other, otherListed, lsOther, libVars, rivalVars>>

\* isSessionActive: the metadata can be read and its PID is alive.
isSessionActive == MetaPidAlive

\* if (!isSessionActive(name)) { removeSession(name); return; }
StopCheck ==
  /\ stPc = "check"
  /\ IF ~isSessionActive
       THEN /\ stPc' = "done"
            /\ metaExists' = removeSession(metaExists)
            /\ meta2' = removeSession(meta2)
            /\ sockFile' = unlinkSocket(sockFile)
       ELSE stPc' = "kill" /\ UNCHANGED <<metaExists, meta2, sockFile>>
  /\ UNCHANGED <<pc, ptySpawned, server, ring, clients, mode, writer, socks,
                 childExitCode, childExited, shuttingDown,
                 drainTimer, lingerTimer, closePending, shutdownResolved,
                 waitResult, ptyIn, ptySize, nData, holderAlive, lsPc, listed,
                 shutdownSteps>>
  /\ UNCHANGED ptyOut
  /\ UNCHANGED <<other, otherListed, lsOther, libVars, h2Pc>>

\* process.kill(meta.childPid, "SIGTERM"); process.kill(meta.pid, "SIGTERM"):
\* the holder has no handler for SIGTERM and ends at once.
StopKill ==
  /\ stPc = "kill"
  /\ stPc' = "done"
  /\ holderAlive' = FALSE
  /\ UNCHANGED <<pc, ptySpawned, server, metaExists, ring, clients, mode,
                 writer, socks, childExitCode, childExited,
                 shuttingDown, drainTimer, lingerTimer, closePending,
                 shutdownResolved, waitResult, ptyIn, ptySize, nData, lsPc,
                 listed, shutdownSteps>>
  /\ UNCHANGED ptyOut
  /\ UNCHANGED <<other, otherListed, lsOther, libVars, rivalVars>>

\* cmdStop has returned; another one may run.
StopReturn ==
  /\ stPc = "done"
  /\ stPc' = "idle"
  /\ UNCHANGED <<holderVars, other, otherListed, lsOther, libVars, rivalVars>>

\* The holder's callbacks, its clients' data events carrying `chunks`.
HolderOn(chunks) ==
  \/ StartSpawn
  \/ StartListen
  \/ StartWriteMetadata
  \/ StartReturn
  \/ \E c \in Conn : Connect(c)
  \/ \E c \in Conn, chunk \in chunks : SocketData(c, chunk)
  \/ \E c \in Conn : SocketMalformed(c)
  \/ \E c \in Conn : SocketError(c)
  \/ \E c \in Conn : SocketClose(c)
  \/ \E len \in 1..MaxBytes : PtyData(len)
  \/ \E code \in ExitCodes : PtyExit(code)
  \/ DrainTimer
  \/ LingerTimer
  \/ ServerCloseCallback
  \/ WaitForExit
  \/ ProcessExit

\* The holder's callbacks, its clients sending chunks of `frames`.
Holder(frames) == HolderOn(ChunksOf(frames))

\* The session protocol: the holder and its clients.
Next == Holder(HandshakeFrames)

Spec == Init /\ [][Next]_vars

\* The registry: the holder, its clients and a process that enumerates the
\* sessions while the holder process exists.
NextRegistry == Holder(RegistryFrames) \/ ListStart \/ ListReturn

SpecRegistry == Init /\ [][NextRegistry]_vars

\* Stale sessions: the holder from its start to its end, with processes that
\* enumerate the sessions and stop the session, in a directory that may hold
\* a second metadata file.
OtherFiles == {"none", "garbled", "stale", "live"}

InitStale ==
  /\ HolderInit
  /\ stPc = "idle"
  /\ other \in OtherFiles
  /\ otherListed = FALSE
  /\ lsOther = FALSE
  /\ RivalIdle
  /\ LibIdle

NextStale ==
  \/ StartSpawn
  \/ StartListen
  \/ StartWriteMetadata
  \/ StartReturn
  \/ \E code \in ExitCodes : PtyExit(code)
  \/ DrainTimer
  \/ LingerTimer
  \/ ServerCloseCallback
  \/ WaitForExit
  \/ ProcessExit
  \/ ListStart
  \/ ListProbe
  \/ ListRemove
  \/ ListOther
  \/ ListReturn
  \/ StopStart
  \/ StopCheck
  \/ StopKill
  \/ StopReturn

SpecStale == InitStale /\ [][NextStale]_vars

\* ── a second Holder.start under the name of the session ──────────────────
\* Holder.start in another process, run under the name of a session that has
\* started (cmdLaunch and Holder.start look for no session of that name):
\* if (!isWindows && existsSync(sockPath)) { unlinkSync(sockPath) }
RivalStart ==
  /\ h2Pc = "idle"
  /\ pc = "started"
  /\ h2Pc' = "spawned"
  /\ sockFile' = unlinkSocket(sockFile)
  /\ UNCHANGED <<holderVars, stPc, other, otherListed, lsOther, meta2, libVars>>

\* await server.listen(sockPath): the path is free since the unlink.
RivalListen ==
  /\ h2Pc = "spawned"
  /\ sockFile = "none"
  /\ h2Pc' = "listening"
  /\ sockFile' = "B"
  /\ UNCHANGED <<holderVars, stPc, other, otherListed, lsOther, meta2, libVars>>

\* writeMetadata(meta): writeFileSync replaces what the file held.
RivalWriteMetadata ==
  /\ h2Pc = "listening"
  /\ h2Pc' = "started"
  /\ meta2' = TRUE
  /\ metaExists' = FALSE
  /\ UNCHANGED <<pc, ptySpawned, server, ring, clients, mode, writer, socks,
                 childExitCode, childExited, shuttingDown,
                 drainTimer, lingerTimer, closePending, shutdownResolved,
                 waitResult, ptyIn, ptySize, nData, holderAlive, lsPc, listed,
                 shutdownSteps, ptyOut>>
  /\ UNCHANGED <<stPc, other, otherListed, lsOther, sockFile, libVars>>

\* The second holder's process exists and its child runs.
RivalAlive == h2Pc # "idle"

\* Two holders of one name: the session's holder from its start to its end,
\* a second holder started under its name, and processes that enumerate the
\* sessions and stop the session.
NextRival ==
  \/ StartSpawn
  \/ StartListen
  \/ StartWriteMetadata
  \/ StartReturn
  \/ \E code \in ExitCodes : PtyExit(code)
  \/ DrainTimer
  \/ LingerTimer
  \/ ServerCloseCallback
  \/ WaitForExit
  \/ ProcessExit
  \/ ListStart
  \/ ListProbe
  \/ ListRemove
  \/ ListReturn
  \/ StopStart
  \/ StopCheck
  \/ StopKill
  \/ StopReturn
  \/ RivalStart
  \/ RivalListen
  \/ RivalWriteMetadata

SpecRival == Init /\ [][NextRival]_vars

\* The event loop runs a timer that is due and a callback that is ready, a
\* destroyed socket gets its close event, and an awaiting caller resumes.
Fairness ==
  /\ WF_vars(DrainTimer)
  /\ WF_vars(LingerTimer)
  /\ WF_vars(ServerCloseCallback)
  /\ WF_vars(WaitForExit)
  /\ \A c \in Conn : WF_vars(socks[c].st = "destroyed" /\ SocketClose(c))

NextLive == Holder(RegistryFrames)

SpecLive == Init /\ [][NextLive]_vars /\ Fairness

\* The holder and clients of which some speak another protocol version.
NextVersion == Holder(VersionFrames)

SpecVersion == Init /\ [][NextVersion]_vars

\* The holder and clients whose HELLO names the mode "wait", has no mode
\* field (hello.mode is undefined) or has the mode null.
ModeFrames ==
  {Hello(m, ProtocolVersion) : m \in {"wait", "undefined", NullMode}}

NextModes == Holder(ModeFrames)

SpecModes == Init /\ [][NextModes]_vars

\* The holder and clients whose first frame is a HELLO that is not JSON, a
\* HELLO whose JSON is null, a frame that is no HELLO, or a valid HELLO.
FirstFrames == {BadHello, HelloNull, Other, Hello("view", ProtocolVersion)}

NextFirst == Holder(FirstFrames)

SpecFirst == Init /\ [][NextFirst]_vars

\* The holder and clients that send input and resizes in every mode.
\* The data events of these clients: one frame, or a handshake and the input
\* or resize that follows it in the same chunk.
InputChunks ==
  {<<f>> : f \in InputFrames}
    \cup {<<Hello(m, ProtocolVersion), f>> :
            m \in {"attach", "view", "logs"}, f \in {DataIn, Resize(7)}}

NextInput == HolderOn(InputChunks)

SpecInput == Init /\ [][NextInput]_vars

\* ── Framing: bytes on the wire ───────────────────────────────────────────
\* Buffer.writeUInt32BE / readUInt32BE (offset counted from 0).
writeUInt32BE(n) ==
  <<(n \div 16777216) % 256, (n \div 65536) % 256, (n \div 256) % 256, n % 256>>

\* A value of 2^31 or more is read as 2^31 - 1, the largest integer the model
\* checker computes with: like the value itself it exceeds MAX_PAYLOAD.
readUInt32BE(b, offset) ==
  IF b[offset + 1] >= 128 THEN 2147483647
  ELSE b[offset + 1] * 16777216 + b[offset + 2] * 65536 + b[offset + 3] * 256
         + b[offset + 4]

encodeFrame(type, payload) ==
  <<type>> \o writeUInt32BE(Len(payload)) \o payload

\* A decoded frame.
Frame(type, payload) == [type |-> type, payload |-> payload]

\* this.buf after a frame of totalLen bytes was taken from its front.
RestDropped(b, totalLen) == <<>>

Rest(b, totalLen) == SubSeq(b, totalLen + 1, Len(b))

\* The while loop of decode: the decoder's buffer afterwards, the frames
\* returned, and whether the call threw (nothing is returned then).
RECURSIVE decodeLoop(_, _)
decodeLoop(b, frames) ==
  IF Len(b) < HEADER_SIZE THEN [buf |-> b, frames |-> frames, threw |-> FALSE]
  ELSE LET type == b[1]
           payloadLen == readUInt32BE(b, 1)
           totalLen == HEADER_SIZE + payloadLen
       IN IF payloadLen > MAX_PAYLOAD
            THEN [buf |-> <<>>, frames |-> <<>>, threw |-> TRUE]
          ELSE IF Len(b) < totalLen
            THEN [buf |-> b, frames |-> frames, threw |-> FALSE]
          ELSE decodeLoop(Rest(b, totalLen),
                          Append(frames,
                                 Frame(type, SubSeq(b, HEADER_SIZE + 1, totalLen))))

decode(b, chunk) == decodeLoop(IF Len(b) = 0 THEN chunk ELSE b \o chunk, <<>>)

\* What a peer sends: frames, and headers that declare more than MAX_PAYLOAD.
Payload(n) == [i \in 1..n |-> n - i]

StreamItems ==
  {[bad |-> FALSE, type |-> t, payload |-> Payload(n)] :
     t \in {MSG_DATA_OUT, MSG_HELLO}, n \in 0..MaxPayloadLen}
    \cup {[bad |-> TRUE, type |-> MSG_DATA_OUT, payload |-> <<>>]}

ItemBytes(it) ==
  IF it.bad THEN <<it.type>> \o writeUInt32BE(MAX_PAYLOAD + 1)
  ELSE encodeFrame(it.type, it.payload)

RECURSIVE Wire(_)
Wire(items) ==
  IF items = <<>> THEN <<>> ELSE ItemBytes(Head(items)) \o Wire(Tail(items))

DecoderInit ==
  /\ stream \in UNION {[1..n -> StreamItems] : n \in 1..MaxFrames}
  /\ fed = 0
  /\ decBuf = <<>>
  /\ decOut = <<>>
  /\ decThrew = FALSE

\* socket.on("data") of a peer whose handler returns when decode throws and
\* leaves the socket open: the next k bytes of the stream arrive as one chunk.
FrameDecoderDecode(k) ==
  /\ fed + k <= Len(Wire(stream))
  /\ LET r == decode(decBuf, SubSeq(Wire(stream), fed + 1, fed + k)) IN
       /\ decBuf' = r.buf
       /\ decOut' = decOut \o r.frames
       /\ decThrew' = (decThrew \/ r.threw)
  /\ fed' = fed + k
  /\ UNCHANGED <<stream, holderVars, readerVars, ringVars, lingerVars, clientVars>>

InitDecoder ==
  HolderInit /\ ReaderIdle /\ RingIdle /\ DecoderInit /\ LingerIdle /\ ClientIdle

NextDecoder == \E k \in 0..(HEADER_SIZE + MaxPayloadLen) * MaxFrames : FrameDecoderDecode(k)

SpecDecoder == InitDecoder /\ [][NextDecoder]_vars

\* ── A RingBuffer on its own ──────────────────────────────────────────────
\* new RingBuffer(cap), for every capacity the constructor accepts up to
\* MaxCapacity.
RingInit ==
  /\ \E cap \in 1..MaxCapacity : rb = RingNew(cap) /\ rbFresh = RingNew(cap)
  /\ rbLog = <<>>
  /\ rbCleared = FALSE
  /\ rbN = 0

\* rb.write(data): the k-th byte written to the ring is the byte k, so every
\* byte of the stream is different.  rbFresh is given the same data.
RingBufferWrite(len) ==
  /\ rbN + len <= MaxRingBytes
  /\ LET data == [k \in 1..len |-> rbN + k] IN
       /\ rb' = RingWrite(rb, data)
       /\ rbFresh' = RingWrite(rbFresh, data)
       /\ rbLog' = rbLog \o data
  /\ rbN' = rbN + len
  /\ UNCHANGED <<rbCleared, holderVars, readerVars, decoderVars, lingerVars, clientVars>>

\* rb.clear(); rbFresh = new RingBuffer(capacity).
RingBufferClear ==
  /\ rb' = RingClear(rb)
  /\ rbFresh' = RingNew(rb.capacity)
  /\ rbLog' = <<>>
  /\ rbCleared' = TRUE
  /\ UNCHANGED <<rbN, holderVars, readerVars, decoderVars, lingerVars, clientVars>>

InitRing ==
  HolderInit /\ ReaderIdle /\ RingInit /\ DecoderIdle /\ LingerIdle /\ ClientIdle

NextRing ==
  \/ \E len \in 0..MaxWriteLen : RingBufferWrite(len)
  \/ RingBufferClear

SpecRing == InitRing /\ [][NextRing]_vars

\* ── The linger of shutdown ───────────────────────────────────────────────
\* Values of HOLDPTY_LINGER_MS: unset, or a string over these characters.
EnvChars == {"-", "0", "2", "x"}

EnvValues ==
  {[set |-> FALSE, chars |-> <<>>]} \cup
  {[set |-> TRUE, chars |-> q] :
     q \in UNION {[1..n -> EnvChars] : n \in 0..MaxEnvLen}}

\* process.env["HOLDPTY_LINGER_MS"] ?? "5000"
EnvOrDefault(env) == IF env.set THEN env.chars ELSE <<"5", "0", "0", "0">>

IsDigit(ch) == ch \in {"0", "2", "5"}

DigitValue(ch) == CASE ch = "0" -> 0 [] ch = "2" -> 2 [] ch = "5" -> 5

\* The digits of q from index i on, up to the first character that is none.
RECURSIVE DigitsFrom(_, _)
DigitsFrom(q, i) ==
  IF i > Len(q) \/ ~IsDigit(q[i]) THEN <<>> ELSE <<q[i]>> \o DigitsFrom(q, i + 1)

RECURSIVE DecimalValue(_)
DecimalValue(digits) ==
  IF digits = <<>> THEN 0
  ELSE 10 * DecimalValue(SubSeq(digits, 1, Len(digits) - 1))
         + DigitValue(digits[Len(digits)])

\* parseInt(q, 10): an optional sign, then the longest run of digits; NaN when
\* there is no digit.
parseInt(q) ==
  LET neg == Len(q) > 0 /\ q[1] = "-"
      digits == DigitsFrom(q, IF neg THEN 2 ELSE 1)
  IN  IF digits = <<>> THEN [nan |-> TRUE, val |-> 0]
      ELSE [nan |-> FALSE,
            val |-> IF neg THEN 0 - DecimalValue(digits) ELSE DecimalValue(digits)]

\* parseInt(...) || 5000: NaN and 0 are falsy.
OrDefault(r) == IF r.nan \/ r.val = 0 THEN DefaultLingerMs ELSE r.val

\* setTimeout(callback, ms): a delay below 1 is set to 1.
TimerDelay(ms) == IF ms < 1 THEN 1 ELSE ms

\* const lingerMs = parseInt(process.env["HOLDPTY_LINGER_MS"] ?? "5000", 10) || 5000
ReadLingerMs ==
  /\ lingerMs = 0
  /\ lingerMs' = OrDefault(parseInt(EnvOrDefault(lingerEnv)))
  /\ UNCHANGED <<lingerEnv, lingerDelay, holderVars, readerVars, ringVars,
                 decoderVars, clientVars>>

\* setTimeout(() => {...}, lingerMs)
SetLingerTimeout ==
  /\ lingerMs # 0
  /\ lingerDelay = 0
  /\ lingerDelay' = TimerDelay(lingerMs)
  /\ UNCHANGED <<lingerEnv, lingerMs, holderVars, readerVars, ringVars,
                 decoderVars, clientVars>>

LingerInit ==
  /\ lingerEnv \in EnvValues
  /\ lingerMs = 0
  /\ lingerDelay = 0

InitLinger ==
  HolderInit /\ ReaderIdle /\ RingIdle /\ DecoderIdle /\ LingerInit /\ ClientIdle

NextLinger == ReadLingerMs \/ SetLingerTimeout

SpecLinger == InitLinger /\ [][NextLinger]_vars

\* ── connect() and attach(): the client side ──────────────────────────────
\* What the holder sends to a client it accepts: HELLO_ACK, the replay,
\* REPLAY_END, live output and, when the child exits, EXIT.
ReplayFrames(n) == [i \in 1..n |-> Frame(MSG_DATA_OUT, <<10 + i>>)]

LiveFrames(n) == [i \in 1..n |-> Frame(MSG_DATA_OUT, <<20 + i>>)]

ClientStreams ==
  {<<Frame(MSG_HELLO_ACK, <<1>>)>> \o ReplayFrames(r)
     \o <<Frame(MSG_REPLAY_END, <<>>)>> \o LiveFrames(l)
     \o (IF e THEN <<Frame(MSG_EXIT, <<42>>)>> ELSE <<>>) :
   r \in 0..MaxReplay, l \in 0..MaxLive, e \in BOOLEAN}

RECURSIVE FramesWire(_)
FramesWire(frames) ==
  IF frames = <<>> THEN <<>>
  ELSE encodeFrame(Head(frames).type, Head(frames).payload)
         \o FramesWire(Tail(frames))

\* The locals of connect that its data handler changes.
ConnectState ==
  [ack |-> ack, resolved |-> resolved, replayDone |-> replayDone,
   log |-> cLog, done |-> cDone]

Delivery(to, payload) == [to |-> to, payload |-> payload]

\* case MSG.DATA_OUT of connect's handler.
ConnectDataOut(S, m, cb, payload) ==
  IF m \in {"view", "logs"}
    THEN IF ~S.replayDone /\ cb
           THEN [S EXCEPT !.log = Append(@, Delivery("onReplayData", payload))]
           ELSE [S EXCEPT !.log = Append(@, Delivery("stdout", payload))]
    ELSE S

\* The switch of connect's data handler.
connectFrame(S, m, cb, f) ==
  CASE f.type = MSG_HELLO_ACK -> [S EXCEPT !.ack = TRUE]
    [] f.type = MSG_ERROR ->
         IF S.resolved = "pending" THEN [S EXCEPT !.resolved = "rejected"] ELSE S
    [] f.type = MSG_DATA_OUT -> ConnectDataOut(S, m, cb, f.payload)
    [] f.type = MSG_REPLAY_END ->
         LET S1 == [S EXCEPT !.replayDone = TRUE] IN
           IF S1.resolved = "pending" /\ S1.ack
             THEN [S1 EXCEPT !.resolved = "resolved"] ELSE S1
    [] f.type = MSG_EXIT ->
         IF S.done = NullCode THEN [S EXCEPT !.done = f.payload[1]] ELSE S
    [] OTHER -> S

RECURSIVE connectFrames(_, _, _, _)
connectFrames(S, m, cb, frames) ==
  IF frames = <<>> THEN S
  ELSE connectFrames(connectFrame(S, m, cb, Head(frames)), m, cb, Tail(frames))

\* connect's data handler for one chunk.
connectData(S, m, cb, r) ==
  IF r.threw
    THEN IF S.resolved = "pending" THEN [S EXCEPT !.resolved = "rejected"] ELSE S
    ELSE connectFrames(S, m, cb, r.frames)

\* attach's data handler for one chunk: DATA_OUT goes to stdout.
RECURSIVE attachFrames(_, _)
attachFrames(log, frames) ==
  IF frames = <<>> THEN log
  ELSE attachFrames(IF Head(frames).type = MSG_DATA_OUT
                      THEN Append(log, Delivery("stdout", Head(frames).payload))
                      ELSE log,
                    Tail(frames))

\* socket.on("data") of the peer: the next k bytes arrive as one chunk.  The
\* handler of connect runs, then the handler of attach if attach has added
\* it; attach adds it when connect's promise has resolved, before the next
\* chunk is delivered.
ClientData(k) ==
  /\ cFed + k <= Len(FramesWire(cFrames))
  /\ LET chunk == SubSeq(FramesWire(cFrames), cFed + 1, cFed + k)
         r == decode(cBuf, chunk)
         S == connectData(ConnectState, cMode, cCb, r)
         ra == decode(aBuf, chunk)
     IN /\ cBuf' = r.buf
        /\ ack' = S.ack
        /\ resolved' = S.resolved
        /\ replayDone' = S.replayDone
        /\ cDone' = S.done
        /\ IF aOn
             THEN /\ aBuf' = ra.buf
                  /\ cLog' = IF ra.threw THEN S.log ELSE attachFrames(S.log, ra.frames)
             ELSE /\ aBuf' = aBuf
                  /\ cLog' = S.log
        /\ aOn' = (aOn \/ (cMode = "attach" /\ S.resolved = "resolved"))
  /\ cFed' = cFed + k
  /\ UNCHANGED <<cMode, cCb, cFrames, holderVars, readerVars, ringVars,
                 decoderVars, lingerVars, stdinVars, tailVars>>

ClientInit ==
  /\ StdinIdle
  /\ TailIdle
  /\ cMode \in {"attach", "view", "logs"}
  /\ cCb \in BOOLEAN
  /\ cFrames \in ClientStreams
  /\ cFed = 0
  /\ cBuf = <<>>
  /\ ack = FALSE
  /\ resolved = "pending"
  /\ cDone = NullCode
  /\ replayDone = FALSE
  /\ cLog = <<>>
  /\ aOn = FALSE
  /\ aBuf = <<>>

InitClient ==
  HolderInit /\ ReaderIdle /\ RingIdle /\ DecoderIdle /\ LingerIdle /\ ClientInit

NextClient ==
  \E k \in 1..(HEADER_SIZE + 1) * (MaxReplay + MaxLive + 3) : ClientData(k)

SpecClient == InitClient /\ [][NextClient]_vars

\* ── attach: the detach sequence on stdin ─────────────────────────────────
MaxStdin == 6

\* Ctrl+A = 0x01, d = 0x64
DEFAULT_DETACH_SEQ == <<1, 100>>

\* parseDetachSequence with HOLDPTY_DETACH unset.
detachSeq == DEFAULT_DETACH_SEQ

\* The bytes of the terminal: Ctrl+A, d and a key of neither kind.
StdinBytes == {1, 100, 120}

StdinState == [idx |-> detachIdx, detached |-> detached, sent |-> sent]

\* socket.write(encodeDataIn(payload))
WriteDataIn(S, payload) == [S EXCEPT !.sent = Append(@, payload)]

\* flushBatch(end): the run data[batchStart..end) goes out as one DATA_IN;
\* batchStart is 0 when no run is open (indices count from 1).
flushBatch(S, data, batchStart, end) ==
  IF batchStart > 0 /\ end > batchStart
    THEN WriteDataIn(S, SubSeq(data, batchStart, end - 1))
    ELSE S

\* batchStart after flushBatch(end).
Flushed(batchStart, end) ==
  IF batchStart > 0 /\ end > batchStart THEN 0 ELSE batchStart

\* What a wrong byte in command mode sends.
PrefixOnly(idx, byte) == <<byte>>

PrefixAnd(idx, byte) ==
  IF idx = 1 /\ byte = detachSeq[1]
    THEN <<detachSeq[1]>>
    ELSE SubSeq(detachSeq, 1, idx) \o <<byte>>

\* The byte loop of onStdinData from index i on.
RECURSIVE stdinLoop(_, _, _, _)
stdinLoop(S, data, i, batchStart) ==
  IF i > Len(data) THEN flushBatch(S, data, batchStart, Len(data) + 1)
  ELSE
    LET byte == data[i]
        F == flushBatch(S, data, batchStart, i)
        b == Flushed(batchStart, i)
    IN IF S.idx > 0 /\ byte = detachSeq[S.idx + 1]
         THEN IF S.idx + 1 = Len(detachSeq)
                THEN [F EXCEPT !.idx = S.idx + 1, !.detached = TRUE]
                ELSE stdinLoop([F EXCEPT !.idx = S.idx + 1], data, i + 1, b)
       ELSE IF S.idx = 0 /\ byte = detachSeq[1]
         THEN stdinLoop([F EXCEPT !.idx = 1], data, i + 1, b)
       ELSE IF S.idx > 0
         THEN stdinLoop([WriteDataIn(F, PrefixAnd(S.idx, byte)) EXCEPT !.idx = 0],
                        data, i + 1, b)
       ELSE stdinLoop(S, data, i + 1, IF batchStart = 0 THEN i ELSE batchStart)

\* onStdinData(data): the fast path, or the byte loop.
onStdinData(S, data) ==
  IF S.idx = 0 /\ \A i \in 1..Len(data) : data[i] # detachSeq[1]
    THEN WriteDataIn(S, data)
    ELSE stdinLoop(S, data, 1, 0)

\* stdin emits the next n bytes as one chunk; cleanup() has removed the
\* listener once the client has detached.
OnStdinData(n) ==
  /\ ~detached
  /\ stdinFed + n <= Len(stdinData)
  /\ LET S == onStdinData(StdinState, SubSeq(stdinData, stdinFed + 1, stdinFed + n))
     IN /\ detachIdx' = S.idx
        /\ detached' = S.detached
        /\ sent' = S.sent
  /\ stdinFed' = stdinFed + n
  /\ stdinCuts' = stdinCuts \cup {stdinFed + n}
  /\ UNCHANGED <<stdinData, holderVars, readerVars, ringVars, decoderVars,
                 lingerVars, connVars, tailVars>>

StdinInit ==
  /\ stdinData \in UNION {[1..n -> StdinBytes] : n \in 0..MaxStdin}
  /\ stdinFed = 0
  /\ stdinCuts = {}
  /\ detachIdx = 0
  /\ detached = FALSE
  /\ sent = <<>>

InitStdin ==
  /\ HolderInit /\ ReaderIdle /\ RingIdle /\ DecoderIdle /\ LingerIdle
  /\ ConnIdle /\ StdinInit /\ TailIdle

NextStdin == \E n \in 1..MaxStdin : OnStdinData(n)

SpecStdin == InitStdin /\ [][NextStdin]_vars

\* ── TailBuffer ───────────────────────────────────────────────────────────
MaxTailChunks == 3

MaxTailChunkLen == 2

MaxTailLines == 2

\* The bytes of the replay: \n (0x0a) and a byte that is not \n.
TailBytes == {10, 97}

TailChunks == UNION {[1..n -> TailBytes] : n \in 0..MaxTailChunkLen}

\* Buffer.concat(chunks.slice(from - 1))
RECURSIVE ConcatFrom(_, _)
ConcatFrom(chunks, from) ==
  IF from > Len(chunks) THEN <<>>
  ELSE chunks[from] \o ConcatFrom(chunks, from + 1)

\* sliceFrom(chunkIndex, byteIndex), indices counted from 1.
sliceFrom(chunks, chunkIndex, byteIndex) ==
  LET first == chunks[chunkIndex]
  IN (IF byteIndex <= Len(first) THEN SubSeq(first, byteIndex, Len(first)) ELSE <<>>)
       \o ConcatFrom(chunks, chunkIndex + 1)

\* const endsWithNewline = lastChunk.length > 0 && lastChunk[last] === 0x0a
endsWithNewline(chunks) ==
  LET lastChunk == chunks[Len(chunks)]
  IN Len(lastChunk) > 0 /\ lastChunk[Len(lastChunk)] = 10

\* The backwards scan of flush, at byte bi of chunk ci with newlineCount.
RECURSIVE tailScan(_, _, _, _, _)
tailScan(chunks, lines, ci, bi, newlineCount) ==
  IF ci = 0 THEN ConcatFrom(chunks, 1)
  ELSE IF bi = 0
    THEN tailScan(chunks, lines, ci - 1,
                  IF ci > 1 THEN Len(chunks[ci - 1]) ELSE 0, newlineCount)
  ELSE IF chunks[ci][bi] # 10
    THEN tailScan(chunks, lines, ci, bi - 1, newlineCount)
  ELSE IF ci = Len(chunks) /\ bi = Len(chunks[ci]) /\ endsWithNewline(chunks)
    THEN tailScan(chunks, lines, ci, bi - 1, newlineCount)
  ELSE IF newlineCount + 1 = lines
    THEN sliceFrom(chunks, ci, bi + 1)
  ELSE tailScan(chunks, lines, ci, bi - 1, newlineCount + 1)

\* flush(lines)
flush(chunks, total, lines) ==
  IF lines = 0 \/ total = 0 THEN <<>>
  ELSE tailScan(chunks, lines, Len(chunks), Len(chunks[Len(chunks)]), 0)

\* push(data), before the flush at REPLAY_END.
TailPush(data) ==
  /\ tailLines = NullCode
  /\ Len(tailChunks) < MaxTailChunks
  /\ tailChunks' = Append(tailChunks, data)
  /\ totalBytes' = totalBytes + Len(data)
  /\ UNCHANGED <<tailLines, tailOut, holderVars, readerVars, ringVars,
                 decoderVars, lingerVars, connVars, stdinVars>>

\* const data = tailBuf.flush(tail)
TailFlush(lines) ==
  /\ tailLines = NullCode
  /\ tailLines' = lines
  /\ tailOut' = flush(tailChunks, totalBytes, lines)
  /\ UNCHANGED <<tailChunks, totalBytes, holderVars, readerVars, ringVars,
                 decoderVars, lingerVars, connVars, stdinVars>>

NextTail ==
  \/ \E data \in TailChunks : TailPush(data)
  \/ \E lines \in 0..MaxTailLines : TailFlush(lines)

SpecTail == Init /\ [][NextTail]_vars

\* ── Properties ───────────────────────────────────────────────────────────
Out(c) == socks[c].out
HelloAttach == Hello("attach", ProtocolVersion)
ActiveAttachment == encodeError("has an active attachment")
\* A connection whose next frame is its first: open and pre-handshake.
Fresh(c) == socks[c].st = "open" /\ mode[c] = NullMode /\ Out(c) = <<>>

\* C1: in every reachable state at most one connected client (a member of the
\* client set) has mode attach.
C1_AtMostOneAttach ==
  Cardinality({c \in clients : mode[c] = "attach"}) <= 1

\* A second attach was refused while the first client is attached.
C1_Witness ==
  \E c, d \in clients :
    /\ c # d
    /\ mode[c] = "attach"
    /\ Out(d) = <<ActiveAttachment>>

\* C2: a HELLO with mode attach that arrives while another client holds the
\* writer slot is answered with the "active attachment" ERROR alone and the
\* connection is destroyed: no HELLO_ACK is sent on it, then or later; the
\* writer keeps the slot and its mode, and a DATA_IN of the writer is still
\* written to the PTY.
C2_SecondAttachRejected ==
  /\ \A c \in Conn :
       (Fresh(c) /\ writer # NoClient) =>
         LET H == handleFrame(HolderState, c, HelloAttach) IN
           /\ H.socks[c].out = <<ActiveAttachment>>
           /\ H.socks[c].st = "destroyed"
           /\ H.writer = writer
           /\ H.mode = mode
           /\ handleFrame(H, writer, DataIn).ptyIn = Append(ptyIn, writer)
  /\ \A c \in Conn :
       (\E i \in 1..Len(Out(c)) : Out(c)[i] = ActiveAttachment) =>
         /\ Out(c) = <<ActiveAttachment>>
         /\ socks[c].st = "destroyed"
         /\ writer # c

\* The second attach was refused and the writer then wrote to the PTY.
C2_Witness ==
  \E c \in Conn :
    /\ Out(c) = <<ActiveAttachment>>
    /\ writer \in clients \ {c}
    /\ mode[c] # NullMode
    /\ ptyIn = <<writer>>

\* C3: the writer slot is held only by a member of the client set, so it is
\* free once the attach client's close or error event has been handled; a
\* HELLO with mode attach on a fresh connection is then accepted: HELLO_ACK
\* is its first frame and the connection becomes the writer.
C3_SlotReleased ==
  /\ writer # NoClient => (writer \in clients /\ mode[writer] = "attach")
  /\ \A c \in Conn :
       (Fresh(c) /\ writer = NoClient) =>
         LET H == handleFrame(HolderState, c, HelloAttach) IN
           /\ Head(H.socks[c].out) = encodeHelloAck("attach", ptySize)
           /\ H.writer = c
           /\ H.mode[c] = "attach"

\* The client of slot 1 wrote to the PTY (it was attached), it has left, and
\* the client of slot 2 is the writer now.
C3_Witness ==
  /\ ptyIn = <<1>>
  /\ socks[1].st = "none"
  /\ writer = 2
  /\ Head(Out(2)).type = "HELLO_ACK"

Indices(c) == 1..Len(Out(c))
IsLive(f) == f.type = "DATA_OUT" /\ f.origin = "broadcast"
IsReplay(f) == f.type = "DATA_OUT" /\ f.origin = "handshake"

\* C4: on every connection HELLO_ACK precedes every DATA_OUT, the replay
\* DATA_OUT is followed by REPLAY_END and REPLAY_END precedes every live
\* DATA_OUT.
C4_FrameOrder ==
  \A c \in Conn : \A i \in Indices(c) :
    /\ Out(c)[i].type = "DATA_OUT" =>
         \E j \in 1..(i - 1) : Out(c)[j].type = "HELLO_ACK"
    /\ IsReplay(Out(c)[i]) =>
         /\ \E j \in Indices(c) : j > i /\ Out(c)[j].type = "REPLAY_END"
         /\ \A j \in Indices(c) : Out(c)[j].type = "REPLAY_END" => j > i
    /\ IsLive(Out(c)[i]) =>
         \E j \in 1..(i - 1) : Out(c)[j].type = "REPLAY_END"

\* A connection that was sent a replay and, later, live output.
C4_Witness ==
  \E c \in Conn : \E i, j \in Indices(c) :
    IsReplay(Out(c)[i]) /\ IsLive(Out(c)[j])

\* C5: EXIT is the last frame on a connection: it is followed by FIN and by
\* nothing else, so no DATA_OUT and no second EXIT comes after it.
C5_ExitIsLast ==
  \A c \in Conn : \A i \in Indices(c) :
    Out(c)[i].type = "EXIT" =>
      /\ i + 1 = Len(Out(c))
      /\ Out(c)[i + 1] = FIN

\* A client that completed its handshake after the child's exit and got EXIT
\* there; the holder wrote to it again (output of the drain window, or the
\* EXIT of shutdown), which destroyed its socket.
C5_Witness ==
  \E c \in clients :
    /\ \E i \in Indices(c) : Out(c)[i].type = "EXIT" /\ Out(c)[i].origin = "handshake"
    /\ socks[c].st = "destroyed"

\* The frames of a handshake in mode m with the ring contents `replay`.
HandshakeOut(m, size, replay) ==
  <<encodeHelloAck(m, size)>>
    \o (IF replay = <<>> THEN <<>> ELSE <<encodeDataOut(replay, "handshake")>>)
    \o <<encodeReplayEnd>>

\* C6: a connection that was sent the HELLO_ACK of mode logs is sent exactly
\* HELLO_ACK, at most one replay DATA_OUT, REPLAY_END and FIN: no live
\* DATA_OUT and no EXIT, whatever happens afterwards.
C6_LogsOneShot ==
  \A c \in Conn :
    (Out(c) # <<>> /\ Head(Out(c)).type = "HELLO_ACK" /\ Head(Out(c)).text = "logs") =>
      /\ Len(Out(c)) \in {3, 4}
      /\ \E replay \in {<<>>} \cup {Out(c)[2].data} :
           Out(c) = HandshakeOut("logs", Head(Out(c)).code, replay) \o <<FIN>>
      /\ socks[c].st \in {"ended", "destroyed"}

\* A logs client whose replay is older than the ring (PTY output came after
\* its handshake) during shutdown, after the child's exit.
C6_Witness ==
  \E c \in clients :
    /\ mode[c] = "logs"
    /\ Len(Out(c)) = 4
    /\ Out(c)[2].data # RingRead(ring)
    /\ shuttingDown

\* C7: an attach or view handshake on a fresh connection after the child's
\* exit sends exactly HELLO_ACK, the replay DATA_OUT if the ring is not empty,
\* REPLAY_END, EXIT with the child's exit code and FIN; and a connection that
\* got its EXIT in the handshake has been sent exactly these frames.
C7_LateHandshake ==
  /\ \A c \in Conn : \A m \in {"attach", "view"} :
       (Fresh(c) /\ childExited /\ ~AttachBusy(Hello(m, ProtocolVersion), writer)) =>
         LET H == handleFrame(HolderState, c, Hello(m, ProtocolVersion)) IN
           /\ H.socks[c].out =
                HandshakeOut(m, ptySize, RingRead(ring))
                  \o <<encodeExit(childExitCode, "handshake"), FIN>>
           /\ H.socks[c].st = "ended"
  /\ \A c \in Conn : \A i \in Indices(c) :
       (Out(c)[i].type = "EXIT" /\ Out(c)[i].origin = "handshake") =>
         /\ childExited /\ childExitCode \in ExitCodes
         /\ \E replay \in {<<>>} \cup {Out(c)[2].data} :
              Out(c) = HandshakeOut(Head(Out(c)).text, Head(Out(c)).code, replay)
                         \o <<encodeExit(childExitCode, "handshake"), FIN>>
         /\ Head(Out(c)).text \in {"attach", "view"}

\* An attach client that completed its handshake during the linger window,
\* with a replay.
C7_Witness ==
  \E c \in clients :
    /\ mode[c] = "attach"
    /\ shuttingDown
    /\ Len(Out(c)) = 5
    /\ Out(c)[4] = encodeExit(42, "handshake")

ShutdownBegun == shuttingDown \/ shutdownResolved

C8_Registry ==
  /\ metaExists => pc \in {"metadata", "started"}
  /\ (metaExists /\ ~ShutdownBegun) => server = "listening"
  /\ (pc = "started" /\ ~ShutdownBegun) => (metaExists /\ server = "listening")

C8_Enumeration ==
  (lsPc = "idle" /\ lsPc' # "idle" /\ pc = "started" /\ ~ShutdownBegun)
    => (lsPc' = "done" /\ listed')

C9_MetadataRemovedFirst == metaExists => server # "closed"

\* C9, amended: shutdown closes the endpoint first and removes the metadata
\* file in the callback of that close, which is also where the shutdown latch
\* is set: the metadata file exists beside a closed endpoint only while that
\* callback is pending, and never once shutdown is complete.
C9_MetadataRemovedOnClose ==
  /\ (metaExists /\ server = "closed") => (closePending /\ shuttingDown)
  /\ shutdownResolved => ~metaExists

\* The endpoint is closed, a destroyed socket has not closed yet, and the
\* metadata file is still there.
C9_Witness ==
  /\ metaExists /\ server = "closed" /\ closePending
  /\ \E c \in Conn : socks[c].st = "destroyed"

\* C10: once the child has exited, the holder eventually completes shutdown
\* and waitForExit returns the child's exit code to the caller of start.
C10_ExitObserved ==
  childExited ~>
    (shutdownResolved /\ (pc = "started" => waitResult = childExitCode))

\* waitForExit returned 42.
C10_Witness == waitResult = 42 /\ childExitCode = 42 /\ shutdownResolved

\* C11: once the shutdown latch is signalled, and so whenever waitForExit has
\* returned, the client set is empty, the writer slot is null, the endpoint
\* does not listen (it is closed if it was ever opened) and the metadata file
\* does not exist; the latch is signalled only by the callback of the
\* endpoint's close, after the linger callback has done these steps.
C11_LatchAfterCleanup ==
  /\ shutdownResolved =>
       /\ clients = {}
       /\ writer = NoClient
       /\ server # "listening"
       /\ pc = "started" => server = "closed"
       /\ ~metaExists
       /\ shutdownSteps.linger >= 1 /\ shutdownSteps.close >= 1
       /\ shutdownSteps.remove >= 1
  /\ waitResult # NullCode => (shutdownResolved /\ pc = "started")

\* waitForExit has returned; a client that was attached when the linger
\* timeout fired has not had its close event yet.
C11_Witness ==
  /\ waitResult # NullCode
  /\ \E c \in Conn : mode[c] = "attach" /\ socks[c].st = "destroyed"

\* C12: the steps of shutdown (the EXIT loop, the linger callback, the
\* endpoint's close and the metadata removal) each run at most once, whatever
\* the clients do after the child's exit.
C12_ShutdownOnce ==
  /\ shutdownSteps.exit <= 1
  /\ shutdownSteps.linger <= 1
  /\ shutdownSteps.close <= 1
  /\ shutdownSteps.remove <= 1

\* Shutdown has run to its end, and a client connected after the child's exit
\* got its EXIT in the handshake.
C12_Witness ==
  /\ shutdownSteps = [exit |-> 1, linger |-> 1, close |-> 1, remove |-> 1]
  /\ shutdownResolved
  /\ \E c \in Conn : \E i \in Indices(c) :
       Out(c)[i].type = "EXIT" /\ Out(c)[i].origin = "handshake"

\* The last n elements of a sequence.
LastBytes(q, n) == SubSeq(q, Len(q) - n + 1, Len(q))

\* C13: for every capacity C and every sequence of writes to a newly
\* constructed ring, of S bytes in all, read() returns the last min(S, C)
\* bytes written, in order, and size is min(S, C).
C13_RingKeepsTail ==
  ~rbCleared =>
    /\ RingRead(rb) = LastBytes(rbLog, Min(Len(rbLog), rb.capacity))
    /\ RingSize(rb) = Min(Len(rbLog), rb.capacity)

\* A ring of capacity 3 that has wrapped more than once and whose next write
\* position is inside the buffer.
C13_Witness ==
  /\ ~rbCleared
  /\ rb.capacity = 3
  /\ Len(rbLog) = 7
  /\ rb.head = 1

\* C14: clear() leaves size 0 and totalWritten 0, and after it the ring reads,
\* sizes and counts like a ring constructed at that moment with the same
\* capacity and given the same writes.
C14_ClearIsFresh ==
  rbCleared =>
    /\ rbLog = <<>> => (RingSize(rb) = 0 /\ rb.written = 0)
    /\ RingRead(rb) = RingRead(rbFresh)
    /\ RingSize(rb) = RingSize(rbFresh)
    /\ rb.written = rbFresh.written

\* A ring cleared while wrapped, then written to without filling it: its
\* buffer still holds bytes from before the clear.
C14_Witness ==
  /\ rbCleared
  /\ rbN > rb.capacity + Len(rbLog)
  /\ rbLog # <<>>
  /\ rb.buf # rbFresh.buf

\* The stream has no bad header.
AllValid == \A i \in 1..Len(stream) : ~stream[i].bad

\* The number of bytes of the stream up to the end of its i-th item.
EndOffset(i) == Len(Wire(SubSeq(stream, 1, i)))

\* The frames of the first n items of the stream.
FramesOf(n) == [i \in 1..n |-> Frame(stream[i].type, stream[i].payload)]

\* How many items of the stream end within its first n bytes.
Complete(n) == Cardinality({i \in 1..Len(stream) : EndOffset(i) <= n})

\* C15: for every list of valid frames and every partition of their
\* concatenated encodings into chunks, after each decode call the decoder has
\* returned exactly the frames whose last byte it has been given, in order,
\* none of them in an earlier call, and it retains the bytes that follow.
C15_RoundTrip ==
  AllValid =>
    /\ ~decThrew
    /\ decOut = FramesOf(Complete(fed))
    /\ decBuf = SubSeq(Wire(stream), EndOffset(Complete(fed)) + 1, fed)

\* Three frames, two of them returned, the decoder holding the header of the
\* third and one byte of its payload.
C15_Witness ==
  /\ AllValid
  /\ Len(stream) = 3
  /\ Len(decOut) = 2
  /\ Len(decBuf) = HEADER_SIZE + 1
  /\ stream[1].payload # <<>>

\* The first bad header of the stream.
FirstBad == CHOOSE i \in 1..Len(stream) :
              stream[i].bad /\ \A j \in 1..(i - 1) : ~stream[j].bad

\* C16: once a decode call has thrown on a header that declares more than
\* MAX_PAYLOAD, the decoder has returned, and returns, only frames located
\* before that header.
C16_NoFrameAfterBadHeader ==
  decThrew =>
    /\ Len(decOut) < FirstBad
    /\ decOut = FramesOf(Len(decOut))

ExpectedHello == encodeError("Expected HELLO")

\* C17: a first frame that is not HELLO is answered with the ERROR alone and
\* the socket is destroyed; the connection is never sent anything else, its
\* mode stays pre-handshake and it never holds the writer slot.
C17_FirstFrameNotHello ==
  /\ \A c \in Conn : \A f \in {DataIn, Other} :
       Fresh(c) =>
         LET H == handleFrame(HolderState, c, f) IN
           /\ H.socks[c] = [st |-> "destroyed", out |-> <<ExpectedHello>>]
           /\ H.mode = mode /\ H.writer = writer
  /\ \A c \in Conn :
       (Out(c) # <<>> /\ Head(Out(c)) = ExpectedHello) =>
         /\ Out(c) = <<ExpectedHello>>
         /\ mode[c] = NullMode
         /\ writer # c

UnsupportedVersion == encodeError("Unsupported protocol version")

\* C18: a HELLO with a protocolVersion other than 1, in whatever mode, is
\* answered with the "Unsupported protocol version" ERROR alone and the
\* socket is destroyed; the connection is never sent HELLO_ACK, its mode stays
\* pre-handshake and it never holds the writer slot.
C18_VersionRejected ==
  /\ \A c \in Conn : \A m \in {"attach", "view"} :
       Fresh(c) =>
         LET H == handleFrame(HolderState, c, Hello(m, ProtocolVersion + 1)) IN
           /\ H.socks[c] = [st |-> "destroyed", out |-> <<UnsupportedVersion>>]
           /\ H.mode = mode /\ H.writer = writer
  /\ \A c \in Conn :
       (Out(c) # <<>> /\ Head(Out(c)) = UnsupportedVersion) =>
         /\ Out(c) = <<UnsupportedVersion>>
         /\ mode[c] = NullMode
         /\ writer # c

\* A DATA_IN or RESIZE frame handled now for a client that is not attached
\* changes nothing: for a view or logs client nothing at all, for a
\* pre-handshake client (which is rejected) none of the PTY, the modes and the
\* writer slot.
C19_Ignored ==
  \A c \in Conn : \A f \in {DataIn, Resize(7)} :
    socks[c].st \in {"open", "ended"} =>
      LET H == handleFrame(HolderState, c, f) IN
        /\ mode[c] \in {"view", "logs"} => H = HolderState
        /\ mode[c] = NullMode =>
             /\ H.ptyIn = ptyIn /\ H.ptySize = ptySize
             /\ H.mode = mode /\ H.writer = writer

\* A step that writes to or resizes the PTY is the handling of frames of the
\* client that holds the writer slot with mode attach.
C19_ByWriter ==
  (ptyIn' # ptyIn \/ ptySize' # ptySize) =>
    /\ writer' # NoClient
    /\ mode'[writer'] = "attach"
    /\ Len(ptyIn') >= Len(ptyIn)
    /\ \A i \in 1..Len(ptyIn') :
         ptyIn'[i] = IF i <= Len(ptyIn) THEN ptyIn[i] ELSE writer'

\* C19: DATA_IN and RESIZE frames write to and resize the PTY only when they
\* come from the client whose mode is attach; from a view, logs or
\* pre-handshake client they change neither the PTY nor the holder's state.
C19_OnlyAttachInput == []C19_Ignored /\ [][C19_ByWriter]_vars

\* The attached client has resized and written to the PTY while a view client
\* and a logs client that the holder can still hear from are connected.
C19_Witness ==
  /\ ptySize = 7 /\ ptyIn # <<>>
  /\ \E c \in clients : mode[c] \in {"view", "logs"} /\ socks[c].st \in {"open", "ended"}

\* The PTY chunk of a step that produced one.
C20_Chunk == CHOOSE buf \in {PtyChunk(nData', len) : len \in 1..MaxBytes} :
               RingRead(ring') =
                 LastBytes(RingRead(ring) \o buf,
                           Min(Len(RingRead(ring) \o buf), Capacity))

C20_Broadcast ==
  nData' # nData =>
    /\ \E len \in 1..MaxBytes :
         RingRead(ring') =
           LastBytes(RingRead(ring) \o PtyChunk(nData', len),
                     Min(Len(RingRead(ring) \o PtyChunk(nData', len)), Capacity))
    /\ \A c \in Conn :
         IF c \in clients /\ mode[c] \in {"attach", "view"} /\ socks[c].st = "open"
           THEN socks'[c].out = Append(socks[c].out, encodeDataOut(C20_Chunk, "broadcast"))
           ELSE socks'[c].out = socks[c].out

\* C20: every chunk of PTY output is appended to the ring and put, as one
\* DATA_OUT, on the wire of every client of the client set whose mode is
\* attach or view and whose socket the holder has neither ended nor
\* destroyed, and on no other connection (pre-handshake, logs).
C20_PtyOutputBroadcast == [][C20_Broadcast]_vars

\* An attach client and a view client that were sent the same live chunk.
C20_Witness ==
  \E c, d \in clients :
    /\ mode[c] = "attach" /\ mode[d] = "view"
    /\ \E i \in Indices(c), j \in Indices(d) :
         IsLive(Out(c)[i]) /\ Out(c)[i] = Out(d)[j]

\* ── stale sessions ───────────────────────────────────────────────────────
\* A step of a reader (not of the holder's shutdown) removes the metadata.
C21_Removal == metaExists /\ ~metaExists' /\ shutdownSteps' = shutdownSteps

C21_Probed ==
  C21_Removal =>
    lsPc = "remove" /\ lsPc' = "done" /\ ~holderAlive /\ ~EndpointReachable

\* C21: a reader (enumeration or stop) removes the metadata of the session
\* only in a step in which it has found the holder PID dead and its probe of
\* the endpoint has failed.
C21_ProbeBeforeCleanup == [][C21_Probed]_vars

C22_Holder ==
  /\ (lsPc = "idle" /\ lsPc' # "idle" /\ metaExists /\ ~holderAlive)
       => lsPc' = "probe"
  /\ (lsPc = "probe" /\ lsPc' # "probe" /\ ~EndpointReachable)
       => lsPc' = "remove" /\ ~listed'
  /\ (lsPc = "remove" /\ lsPc' # "remove")
       => ~metaExists' /\ sockFile' = "none" /\ ~listed'

C22_Other ==
  (~lsOther /\ lsOther' /\ other = "stale") => other' = "none" /\ ~otherListed'

\* C22: an enumeration that finds a session's holder PID dead probes the
\* endpoint, and when the probe fails it removes the session's files and
\* leaves the session out of its result; so for both files of the directory.
C22_StaleRemoved == [][C22_Holder /\ C22_Other]_vars

\* An enumeration is through with both files: the second one was stale and is
\* gone, the session of the killed holder is gone and not in the result.
C22_Witness ==
  /\ lsPc = "done" /\ lsOther
  /\ other = "none" /\ ~otherListed
  /\ pc = "started" /\ ~holderAlive /\ shutdownSteps["remove"] = 0
  /\ ~metaExists /\ ~listed

C25_Skip ==
  /\ other = "garbled" => other' = "garbled"
  /\ (~lsOther /\ lsOther' /\ other = "garbled") => ~otherListed'

C25_Others ==
  (lsPc = "idle" /\ lsPc' # "idle" /\ other = "garbled" /\ metaExists /\ holderAlive)
    => lsPc' = "done" /\ listed'

\* C25: a metadata file that cannot be parsed is never removed and never in
\* the result of an enumeration, and an enumeration that meets it, before or
\* after the holder's file, still returns the running holder's session.
C25_GarbledSkipped ==
  /\ [](other = "garbled" => ~otherListed)
  /\ [][C25_Skip /\ C25_Others]_vars

\* An enumeration has skipped the garbled file and returns the holder's session.
C25_Witness ==
  /\ other = "garbled" /\ lsOther /\ ~otherListed
  /\ lsPc = "done" /\ listed /\ metaExists /\ holderAlive

\* ── failed start ─────────────────────────────────────────────────────────
\* C24: when pty.spawn has thrown, or listen has failed on the endpoint,
\* start has failed, and a failed start has written no metadata file.
C24_FailedStartNoMetadata ==
  /\ (pc # "init" /\ ~ptySpawned) => pc = "failed"
  /\ (ptySpawned /\ pc # "spawned" /\ server = "none") => pc = "failed"
  /\ pc = "failed" => ~metaExists

\* The child was spawned, listen failed, and the child has produced output
\* since.
C24_Witness ==
  pc = "failed" /\ ptySpawned /\ server = "none" /\ ~metaExists /\ nData > 0

\* ── linger ───────────────────────────────────────────────────────────────
\* The value is a decimal integer: an optional minus sign and digits only.
IsDecimal(q) ==
  LET neg == Len(q) > 0 /\ q[1] = "-"
      from == IF neg THEN 2 ELSE 1
  IN  Len(q) >= from /\ \A i \in from..Len(q) : IsDigit(q[i])

\* C23: the delay of the linger timeout is 5000 ms when HOLDPTY_LINGER_MS is
\* unset, the variable's value when that is a positive integer, and at least
\* 1 ms but less than the default when it is zero or negative.
C23_LingerClamp ==
  lingerDelay # 0 =>
    /\ ~lingerEnv.set => lingerDelay = DefaultLingerMs
    /\ (lingerEnv.set /\ IsDecimal(lingerEnv.chars)) =>
         IF parseInt(lingerEnv.chars).val > 0
           THEN lingerDelay = parseInt(lingerEnv.chars).val
           ELSE lingerDelay >= 1 /\ lingerDelay < DefaultLingerMs

\* ── unknown frames ───────────────────────────────────────────────────────
\* Frames a client may send after its handshake, of every type.
C26_Frames == HandshakeFrames \cup InputFrames

\* A frame of an opcode the protocol does not define (9), with a payload of
\* two bytes, followed by an empty HELLO frame, in one chunk.
C26_Decoded ==
  decode(<<>>, encodeFrame(9, Payload(2)) \o encodeFrame(MSG_HELLO, <<>>))
    = [buf |-> <<>>, threw |-> FALSE,
       frames |-> <<Frame(9, Payload(2)), Frame(MSG_HELLO, <<>>)>>]

\* C26: for a client past its handshake, a frame that is neither DATA_IN nor
\* RESIZE (an unknown opcode, a second HELLO) leaves the holder's state, the
\* PTY and the client's socket as they are, and a frame that follows it in
\* the chunk has the effect it has on its own; the decoder takes such a frame
\* off the stream whole.
C26_UnknownIgnored ==
  /\ C26_Decoded
  /\ \A c \in Conn :
       (mode[c] # NullMode /\ socks[c].st \in {"open", "ended"}) =>
         /\ handleFrame(HolderState, c, Other) = HolderState
         /\ handleFrame(HolderState, c, HelloAttach) = HolderState
         /\ \A f \in C26_Frames :
              handleFrames(HolderState, c, <<Other, f>>)
                = handleFrame(HolderState, c, f)

\* An attach client with an open socket whose DATA_IN, sent behind an unknown
\* frame in one chunk, is written to the PTY.
C26_Witness ==
  \E c \in clients :
    /\ mode[c] = "attach" /\ socks[c].st = "open"
    /\ handleFrames(HolderState, c, <<Other, DataIn>>).ptyIn = Append(ptyIn, c)

\* ── connect() ────────────────────────────────────────────────────────────
\* Where REPLAY_END is in the stream, and how many whole frames have arrived.
ReplayEndAt == CHOOSE i \in 1..Len(cFrames) : cFrames[i].type = MSG_REPLAY_END

Arrived ==
  Cardinality({i \in 1..Len(cFrames) :
                 Len(FramesWire(SubSeq(cFrames, 1, i))) <= cFed})

RECURSIVE Concat(_)
Concat(payloads) ==
  IF payloads = <<>> THEN <<>> ELSE Head(payloads) \o Concat(Tail(payloads))

\* The bytes handed to onReplayData so far, and the bytes of the replay.
ToReplayHandler ==
  Concat([i \in 1..Len(SelectSeq(cLog, LAMBDA d : d.to = "onReplayData")) |->
            SelectSeq(cLog, LAMBDA d : d.to = "onReplayData")[i].payload])

ReplayedBytes == Concat([i \in 1..(ReplayEndAt - 2) |-> cFrames[i + 1].payload])

\* C27: when connect has resolved for a peer in attach mode that passed
\* onReplayData, the payloads handed to onReplayData, concatenated, are the
\* replay the holder sent.
C27_AttachReplayDelivered ==
  (cMode = "attach" /\ cCb /\ resolved = "resolved")
    => ToReplayHandler = ReplayedBytes

\* What is to be done with the DATA_OUT frames among the first n frames: the
\* ones before REPLAY_END go to the replay handler (onReplayData, or stdout
\* when there is none), the ones after it are live and go to stdout.
RECURSIVE ExpectedLog(_)
ExpectedLog(n) ==
  IF n = 0 THEN <<>>
  ELSE IF cFrames[n].type # MSG_DATA_OUT THEN ExpectedLog(n - 1)
  ELSE Append(ExpectedLog(n - 1),
              Delivery(IF n < ReplayEndAt /\ cCb THEN "onReplayData" ELSE "stdout",
                       cFrames[n].payload))

\* C28: however the stream is cut into chunks, every DATA_OUT that has
\* arrived before REPLAY_END went to the replay handler and every one after
\* it was treated as live output, in the order of the stream.
C28_AtomicFlip == cLog = ExpectedLog(Arrived)

\* ── the drain window ─────────────────────────────────────────────────────
\* The child has exited and shutdown has not begun.
DrainWindow == childExited /\ drainTimer /\ ~ShutdownBegun

\* The connection of c is up: no close event yet, the socket not destroyed.
Connected(c) == c \in clients /\ socks[c].st \in {"open", "ended"}

C29_Drain ==
  (DrainWindow /\ nData' # nData) =>
    /\ \E len \in 1..MaxBytes :
         RingRead(ring') =
           LastBytes(RingRead(ring) \o PtyChunk(nData', len),
                     Min(Len(RingRead(ring) \o PtyChunk(nData', len)), Capacity))
    /\ \A c \in Conn :
         (Connected(c) /\ mode[c] \in {"attach", "view"}) =>
           /\ socks'[c].out = Append(socks[c].out, encodeDataOut(C20_Chunk, "broadcast"))
           /\ \A i \in Indices(c) : Out(c)[i].type # "EXIT"

HelloAcks(c) == {i \in Indices(c) : Out(c)[i].type = "HELLO_ACK"}

\* C30: the mode of a connection is pre-handshake, attach, view or logs; a
\* connection that was sent HELLO_ACK has the mode attach, view or logs, and
\* no connection is sent HELLO_ACK twice.
C30_ModeValid ==
  \A c \in Conn :
    /\ mode[c] \in {NullMode, "attach", "view", "logs"}
    /\ HelloAcks(c) # {} => mode[c] \in {"attach", "view", "logs"}
    /\ Cardinality(HelloAcks(c)) <= 1

\* ── replay and live output of one client ─────────────────────────────────
\* The first k chunks of the PTY output, as one byte sequence.
RECURSIVE FlatOut(_)
FlatOut(k) == IF k = 0 THEN <<>> ELSE FlatOut(k - 1) \o ptyOut[k]

\* The payload of the replay frame sent to c (empty without one), and the
\* payloads of the live frames sent to c, in order.
ReplayOf(c) ==
  LET r == SelectSeq(Out(c), IsReplay) IN
    IF r = <<>> THEN <<>> ELSE r[1].data

LiveOf(c) ==
  LET l == SelectSeq(Out(c), IsLive) IN [i \in 1..Len(l) |-> l[i].data]

HandshakeDone(c) ==
  /\ mode[c] \in {"attach", "view"}
  /\ \E i \in Indices(c) : Out(c)[i].type = "HELLO_ACK"

\* C31: what an attach or view client is sent is a contiguous part of the PTY
\* output: for the number h of chunks produced before its handshake, its
\* replay is the last min(total, C) bytes of the first h chunks, and its live
\* frames are the chunks h+1, h+2, ... one by one, up to the last chunk
\* produced as long as the holder has not ended or destroyed its socket.
C31_ContiguousOutput ==
  \A c \in Conn :
    HandshakeDone(c) =>
      /\ Len(SelectSeq(Out(c), IsReplay)) <= 1
      /\ \E h \in 0..Len(ptyOut) :
           /\ ReplayOf(c) = LastBytes(FlatOut(h), Min(Len(FlatOut(h)), Capacity))
           /\ h + Len(LiveOf(c)) <= Len(ptyOut)
           /\ LiveOf(c) = SubSeq(ptyOut, h + 1, h + Len(LiveOf(c)))
           /\ socks[c].st = "open" => h + Len(LiveOf(c)) = Len(ptyOut)

\* A client whose handshake came between two chunks: the first is its replay,
\* the second its one live frame.
C31_Witness ==
  \E c \in clients :
    /\ HandshakeDone(c) /\ socks[c].st = "open"
    /\ Len(ptyOut) = 2
    /\ ReplayOf(c) = LastBytes(FlatOut(1), Min(Len(FlatOut(1)), Capacity))
    /\ LiveOf(c) = <<ptyOut[2]>>

\* ── rejected connections ─────────────────────────────────────────────────
\* The holder has sent ERROR on the connection (and destroyed its socket).
Rejected(c) == \E i \in Indices(c) : Out(c)[i].type = "ERROR"

\* C32: a connection the holder has rejected is in no mode, does not hold
\* the writer slot, was sent no HELLO_ACK, and none of the writes to the PTY
\* is from it.
C32_RejectedStaysOut ==
  \A c \in Conn :
    Rejected(c) =>
      /\ mode[c] = NullMode
      /\ writer # c
      /\ \A i \in Indices(c) : Out(c)[i].type # "HELLO_ACK"
      /\ \A i \in 1..Len(ptyIn) : ptyIn[i] # c

\* ── the writer slot ──────────────────────────────────────────────────────
\* C38: the writer slot is taken exactly when a client of the client set is
\* in attach mode, and it then refers to a client of the set that is in
\* attach mode (the only one, by C1), never to a client that was removed.
C38_WriterAgrees ==
  /\ writer # NoClient <=> \E c \in clients : mode[c] = "attach"
  /\ writer # NoClient => writer \in clients /\ mode[writer] = "attach"

\* An attach client was removed on a socket error, whose close event is still
\* to come, and another client has taken the slot since.
C38_Witness ==
  \E c, d \in Conn :
    /\ c # d
    /\ c \notin clients /\ mode[c] = "attach" /\ socks[c].st = "destroyed"
    /\ writer = d /\ d \in clients /\ mode[d] = "attach"

\* ── first frames ─────────────────────────────────────────────────────────
C33_Answered(H, c) ==
  \/ H.socks[c].st \in {"open", "ended"} /\ Head(H.socks[c].out).type = "HELLO_ACK"
  \/ /\ H.socks[c].st = "destroyed"
     /\ Len(H.socks[c].out) = 1
     /\ Head(H.socks[c].out).type = "ERROR"
     /\ H.mode[c] = NullMode

\* C33: whatever first frame a new connection sends, the holder completes
\* the handshake or answers with one ERROR and destroys that socket; the
\* other connections, the writer slot held by another client and the PTY are
\* as before, and the holder process goes on running: it ends only after
\* waitForExit has returned.
C33_FirstFrameAnswered ==
  /\ \A c \in Conn : \A f \in FirstFrames :
       Fresh(c) =>
         LET H == handleFrame(HolderState, c, f) IN
           /\ ~H.threw
           /\ C33_Answered(H, c)
           /\ \A d \in Conn \ {c} : H.socks[d] = socks[d] /\ H.mode[d] = mode[d]
           /\ H.writer \in {writer, c}
           /\ H.ptyIn = ptyIn /\ H.ptySize = ptySize
  /\ ~holderAlive => waitResult # NullCode

\* ── frames before an oversize header ─────────────────────────────────────
\* C37: when the decoder has met a header that declares more than
\* MAX_PAYLOAD, every frame of the stream that precedes that header has been
\* returned, however the stream was cut into chunks.
C37_FramesBeforeOversize ==
  decThrew =>
    /\ Len(decOut) >= FirstBad - 1
    /\ SubSeq(decOut, 1, FirstBad - 1) = FramesOf(FirstBad - 1)

\* ── attach() ─────────────────────────────────────────────────────────────
\* The payloads written to stdout, and the payloads of the live frames of the
\* stream (the DATA_OUT frames after REPLAY_END), in order.
ToStdout ==
  LET w == SelectSeq(cLog, LAMBDA d : d.to = "stdout") IN
    [i \in 1..Len(w) |-> w[i].payload]

LiveSent ==
  LET l == SelectSeq(SubSeq(cFrames, ReplayEndAt + 1, Len(cFrames)),
                     LAMBDA f : f.type = MSG_DATA_OUT)
  IN [i \in 1..Len(l) |-> l[i].payload]

ExitSent == \E i \in 1..Len(cFrames) : cFrames[i].type = MSG_EXIT

\* C36: when the whole stream has arrived at an attach client, in whatever
\* chunks, what the client has written to its output after the replay is
\* every live DATA_OUT payload, once and in order, and the client has got the
\* exit code if EXIT was sent.
C36_AttachLiveOutput ==
  (cMode = "attach" /\ cFed = Len(FramesWire(cFrames))) =>
    /\ ToStdout = LiveSent
    /\ ExitSent => cDone = 42

\* ── two holders of one name ──────────────────────────────────────────────
\* A step leaves the files of the session's holder in place.
KeepsFirst ==
  /\ (holderAlive /\ sockFile = "A") => sockFile' = "A"
  /\ (holderAlive /\ metaExists) => metaExists'

\* A step leaves the files of the second holder in place.
KeepsSecond ==
  /\ sockFile = "B" => sockFile' = "B"
  /\ meta2 => meta2'

C34_Start == (h2Pc' # h2Pc) => KeepsFirst

C34_Shutdown == (shutdownSteps' # shutdownSteps) => KeepsSecond

\* C34: a holder started under the name of a session whose holder is alive
\* neither removes nor replaces that session's socket file or metadata, and a
\* holder's shutdown removes no file of the other holder.
C34_OwnFilesOnly == [][C34_Start /\ C34_Shutdown]_vars

\* C35: no step of an enumeration removes the socket file or the metadata of
\* a holder that is alive, whatever a holder starting under the name of the
\* stale session does in between.
C35_CleanupSparesLive == [][(lsPc' # lsPc) => (KeepsFirst /\ KeepsSecond)]_vars

\* ── the detach sequence ──────────────────────────────────────────────────
\* What a terminal that typed `bytes` has had forwarded, byte by byte; cmd
\* says that a Ctrl+A is waiting for the byte after it.
RECURSIVE Forwarded(_, _)
Forwarded(bytes, cmd) ==
  IF bytes = <<>> THEN <<>>
  ELSE LET b == Head(bytes)
           r == Tail(bytes)
       IN IF ~cmd
            THEN IF b = detachSeq[1] THEN Forwarded(r, TRUE)
                 ELSE <<b>> \o Forwarded(r, FALSE)
          ELSE IF b = detachSeq[2] THEN <<>>
          ELSE IF b = detachSeq[1] THEN <<b>> \o Forwarded(r, FALSE)
          ELSE <<detachSeq[1], b>> \o Forwarded(r, FALSE)

\* The terminal has typed Ctrl+A and then d.
RECURSIVE Detaches(_, _)
Detaches(bytes, cmd) ==
  IF bytes = <<>> THEN FALSE
  ELSE LET b == Head(bytes)
           r == Tail(bytes)
       IN IF ~cmd THEN Detaches(r, b = detachSeq[1])
          ELSE b = detachSeq[2] \/ Detaches(r, FALSE)

Typed == SubSeq(stdinData, 1, stdinFed)

LineStarts(bytes) ==
  IF bytes = <<>> THEN {}
  ELSE {1} \cup {i + 1 : i \in {j \in 1..(Len(bytes) - 1) : bytes[j] = 10}}

\* The last n lines of `bytes`, all of it when it has fewer.
LastLines(bytes, n) ==
  LET starts == LineStarts(bytes)
  IN IF n = 0 THEN <<>>
     ELSE IF Cardinality(starts) <= n THEN bytes
     ELSE LET from == CHOOSE s \in starts :
                        Cardinality({t \in starts : t >= s}) = n
          IN SubSeq(bytes, from, Len(bytes))

\* C40: flush(N) returns the last N lines of the concatenation of the pushed
\* chunks, whatever the chunks, empty ones included, that made it up.
C40_LastLines ==
  tailLines # NullCode => tailOut = LastLines(ConcatFrom(tailChunks, 1), tailLines)

====
